---------------------------- MODULE Spec2Model ----------------------------
(***************************************************************************)
(* A model of the glider scraping engine (src/engine/scraper.py) and of    *)
(* its checkpoint store (src/engine/checkpoint.py) and Bloom set           *)
(* (src/engine/bloom.py).                                                  *)
(*                                                                         *)
(* The specifications share the variables:                                 *)
(*   SpecCkpt   a caller awaiting the CheckpointManager coroutines;        *)
(*   SpecMerge  tasks awaiting ScraperEngine._merge_data directly;         *)
(*   Spec       a caller awaiting run(), _run_list_mode() or               *)
(*              _run_pagination_mode() of one ScraperEngine;               *)
(*   SpecProxy  calls of ScraperEngine._get_next_proxy;                    *)
(*   SpecBrowser tasks awaiting BrowserManager.fetch_page                  *)
(*              (src/engine/browser.py).                                   *)
(***************************************************************************)
EXTENDS Integers, Sequences, FiniteSets, TLC

(***************************************************************************)
(* Bounds of the model.                                                    *)
(***************************************************************************)
NumUrls == 2            \* URLs are 1..NumUrls
NumJobs == 2            \* job names are 1..NumJobs
NumMgrs == 2            \* CheckpointManager instances a caller creates
NumTasks == 2           \* tasks that call _merge_data concurrently
NumItems == 4           \* extracted list items are 0..NumItems-1
NumHashes == 3          \* distinct canonical hashes of those items
MaxPageItems == 4       \* longest list one page yields
MaxArrivals == 4        \* list items merged in one behaviour of SpecMerge
MaxCalls == 2           \* _merge_data calls in one behaviour of SpecMerge
\* The program's sizes, scaled down so that their cases occur in a small model:
BatchSize == 2          \* self.batch_size = 10            (scraper.py:110)
RecentMaxLen == 2       \* deque(maxlen=1000)              (scraper.py:98)
BitSize == 4            \* BloomFilter.bit_size, 1437759   (bloom.py:33)
HashCount == 2          \* BloomFilter.hash_count, 10      (bloom.py:34)
MaxSeeds == 2           \* longest config.start_urls
MaxConcurrency == 2     \* largest config.concurrency
MaxRateLimit == 1       \* largest config.rate_limit
MaxPages == 2           \* largest config.pagination.max_pages
MaxEngineCalls == 2     \* coroutines of one engine a caller awaits, one after the other
StopAfterAttempt == 3   \* stop_after_attempt(3)           (scraper.py:436)
NumProxies == 3         \* proxy URLs are 1..NumProxies
MaxProxies == 3         \* longest config.proxies
MaxProxyCalls == 4      \* calls of _get_next_proxy on one engine
NumBrTasks == 2         \* tasks that call BrowserManager.fetch_page concurrently
MaxBrCalls == 6         \* fetch_page calls in one behaviour of SpecBrowser
MaxInteractions == 2    \* longest config.interactions
MAX_REQUESTS_PER_CONTEXT == 2   \* self.MAX_REQUESTS_PER_CONTEXT = 50 (browser.py:32)
InteractionAttempts == 2    \* stop_after_attempt(2)     (browser.py:120, scraper.py:402)

URLs == 1..NumUrls
Jobs == 1..NumJobs
Mgrs == 1..NumMgrs
Tasks == 1..NumTasks
AllTasks == 0..MaxSeeds
BrTasks == 1..NumBrTasks
Items == 0..(NumItems - 1)
Free == -1              \* asyncio.Lock: not locked
None == -1              \* the value of a scalar field whose selector matched nothing
Title == -2             \* a scalar field value

VARIABLES
    db,             \* data/checkpoints.db: (job_name, url) -> "none" | "in_progress" | "done"
    mgr,            \* the CheckpointManager instances: enabled, _initialized, _cache
    marked,         \* history: per instance, the URLs whose mark_done wrote without error
    done_returned,  \* history: (job, url) pairs whose mark_done wrote without error
    must_see,       \* history: per instance, done_returned of its job when it was initialised
    fields,             \* config.fields: the field names, in declaration order
    aggregated_data,    \* self.aggregated_data
    seen_hashes,        \* self.seen_hashes.bit_array: the indexes of the bits set
    recent_hashes,      \* self.recent_hashes
    false_positive_count, \* self.false_positive_count
    pending_batch,      \* self.pending_batch
    data_lock,          \* self.data_lock: the task that holds it, or Free
    sink_calls,         \* the payloads output_callback was invoked with, in order
    stats,              \* the StatsEvent counts stats_callback received, per event_type
    arrivals,           \* history: the list items _merge_data examined, in order
    appended,           \* history: the entries appended to pending_batch, in order
    pc,                 \* per task: where it stands
    t_page,             \* per task: the page_data it is merging
    t_flush,            \* per task: batch_to_flush of its _merge_data call
    t_added,            \* per task: entries_added of its _merge_data call
    calls,              \* history: the number of _merge_data calls made
    cfg,                \* self.config: the ScraperConfig of the engine
    entry,              \* the coroutine of the engine the caller awaited last
    ncalls,             \* history: how many the caller has awaited
    outcome,            \* how that coroutine ended: "none" while it runs
    session_open,       \* self.session is set (curl_cffi AsyncSession)
    robots_parser,      \* self.robots_parser: loaded or not, the URLs it disallows
    shutdown_requested, \* self.shutdown_requested
    sem,                \* the free permits of the Semaphore of _run_list_mode
    bucket,             \* self.rate_limiter: the tokens taken and not yet leaked
    t_url,              \* per task: the URL it works on (task 0: current_url)
    t_attempt,          \* per task: the attempt number of its _fetch_page call, 0 outside one
    pages_scraped,      \* pages_scraped of _run_pagination_mode
    failed_urls,        \* self.failed_urls
    fetched,            \* history: the URLs a request was issued for
    requests_issued,    \* history: the number of requests issued
    tokens_acquired,    \* history: the number of rate-limiter tokens taken
    mip_called,         \* history: the URLs the engine called mark_in_progress with
    md_called,          \* history: the URLs the engine called mark_done with
    at_cancel,           \* history: pending_batch and the number of sink calls when
                        \* run() was cancelled
    t_result,            \* history, per task: how the fetch, or the processing, of its page ended
    fetch_calls,         \* history: the number of _fetch_page calls the drivers made
    proxy_pool,          \* self.proxy_pool: how far the cycle over config.proxies has advanced
    proxy_log,           \* what the calls of _get_next_proxy returned, in order
    bm,                 \* the BrowserManager: playwright started, context, request_count, config.interactions
    contexts,           \* the BrowserContexts created so far: closed, pages opened, pages open now
    b_task,             \* per task, where its fetch_page call is, its page's context, its interaction log
    b_calls,            \* fetch_page calls made so far
    overlapped          \* history: some fetch_page call began while another was running

ckVars == <<db, mgr, marked, done_returned, must_see>>
dataVars == <<fields, aggregated_data, seen_hashes, recent_hashes, false_positive_count,
              pending_batch, data_lock, sink_calls, stats, arrivals, appended>>
taskVars == <<pc, t_page, t_flush, t_added, calls>>
engVars == <<cfg, entry, ncalls, outcome, session_open, robots_parser, shutdown_requested,
             sem, bucket, t_url, t_attempt, pages_scraped, failed_urls, fetched,
             requests_issued, tokens_acquired, mip_called, md_called, at_cancel,
             t_result,
             fetch_calls,
             proxy_pool,
             proxy_log>>
brVars == <<bm, contexts, b_task, b_calls, overlapped>>
vars == <<ckVars, dataVars, taskVars, engVars, brVars>>

(***************************************************************************)
(* BloomFilter (src/engine/bloom.py) and the dedup state of the engine.    *)
(***************************************************************************)
\* hashlib.md5(json.dumps(item, sort_keys=True).encode()).hexdigest(): items
\* whose canonical JSON text is the same share one hash.
item_hash(item) == item % NumHashes

\* BloomFilter._hash(item, seed): a fixed function into 0..bit_size-1 (SHA-256
\* of "item:seed" modulo bit_size in the code).
bloom_hash(h, seed) == (h + seed) % BitSize

\* Mutant: add sets the bit of the first hash function only.
BloomAdd_FirstBitOnly(bits, h) == bits \cup {bloom_hash(h, 0)}

\* BloomFilter.add: sets the hash_count bits of the item.
BloomAdd(bits, h) == bits \cup {bloom_hash(h, seed) : seed \in 0..(HashCount - 1)}

\* BloomFilter.__contains__: every one of the hash_count bits is set.
BloomContains(bits, h) == \A seed \in 0..(HashCount - 1) : bloom_hash(h, seed) \in bits

\* Mutant: the deque holds one element fewer than maxlen.
DequeAppend_OneShort(q, x) ==
    IF Len(q) >= RecentMaxLen - 1 THEN Append(Tail(q), x) ELSE Append(q, x)

\* deque(maxlen=...).append: the oldest element falls out of a full deque.
DequeAppend(q, x) == IF Len(q) >= RecentMaxLen THEN Append(Tail(q), x) ELSE Append(q, x)

InSeq(q, x) == \E i \in 1..Len(q) : q[i] = x

\* config.fields decides the shape of each value of page_data
\* (HtmlResolver.resolve_field): a list for an is_list field, a scalar or None
\* for the others.
IsListField(key) == key = "items"
Keys == {"items", "title"}
FieldConfigs == {<<"items">>, <<"items", "title">>, <<"title">>}

\* The engine's data as one record, for the pure operators below.
EngineData ==
    [agg |-> aggregated_data, seen |-> seen_hashes, recent |-> recent_hashes,
     fp |-> false_positive_count, pending |-> pending_batch,
     flush |-> <<>>, added |-> 0, arrivals |-> arrivals, appended |-> appended]

\* target.append(item); recent_hashes.append(item_hash); entries_added += 1;
\* pending_batch.append({key: [item]})
KeepItem(S, key, item) ==
    [S EXCEPT !.agg[key].items = Append(@, item),
              !.recent = DequeAppend(@, item_hash(item)),
              !.added = @ + 1,
              !.pending = Append(@, [key |-> key, v |-> item]),
              !.appended = Append(@, [key |-> key, v |-> item])]

\* if len(self.pending_batch) >= self.batch_size: batch_to_flush = copy; pending = []
DetachIfFull(S) ==
    IF Len(S.pending) >= BatchSize
    THEN [S EXCEPT !.flush = S.pending, !.pending = <<>>]
    ELSE S

\* Mutant: whatever the Bloom set reports as present is dropped.
MergeItem_TrustBloom(S, key, item) ==
    LET h == item_hash(item)
        hit == BloomContains(S.seen, h)
        Log(T, kept) == [T EXCEPT !.arrivals =
                           Append(@, [item |-> item, hit |-> hit, kept |-> kept, fp |-> T.fp])]
    IN IF ~hit
       THEN DetachIfFull(Log([KeepItem(S, key, item) EXCEPT !.seen = BloomAdd(@, h)], TRUE))
       ELSE Log(S, FALSE)

\* The body of "for item in value" (scraper.py:516-550) for one item.
MergeItem(S, key, item) ==
    LET h == item_hash(item)
        hit == BloomContains(S.seen, h)
        Log(T, kept) == [T EXCEPT !.arrivals =
                           Append(@, [item |-> item, hit |-> hit, kept |-> kept, fp |-> T.fp])]
    IN IF ~hit
       THEN \* definitely new
            DetachIfFull(Log([KeepItem(S, key, item) EXCEPT !.seen = BloomAdd(@, h)], TRUE))
       ELSE IF InSeq(S.recent, h)
       THEN \* definitely duplicate: continue (the batch size is not looked at)
            Log(S, FALSE)
       ELSE \* suspected false positive: kept, counted
            DetachIfFull(Log([KeepItem(S, key, item) EXCEPT !.fp = @ + 1], TRUE))

RECURSIVE MergeItems(_, _, _)
MergeItems(S, key, items) ==
    IF items = <<>> THEN S
    ELSE MergeItems(MergeItem(S, key, Head(items)), key, Tail(items))

\* The body of "for key, value in page_data.items()" for one field.
MergeField(S, key, value) ==
    LET T == IF S.agg[key].present THEN S
             ELSE [S EXCEPT !.agg[key] =
                     IF IsListField(key)
                     THEN [present |-> TRUE, items |-> <<>>, v |-> None]
                     ELSE [present |-> TRUE, items |-> <<>>, v |-> value]]
    IN IF IsListField(key)
       THEN MergeItems(T, key, value)
       ELSE \* non-list field: pending_batch.append({key: value})
            [T EXCEPT !.pending = Append(@, [key |-> key, v |-> value]),
                      !.appended = Append(@, [key |-> key, v |-> value])]

\* The critical section of _merge_data (scraper.py:508-553): page_data is a
\* sequence of <<key, value>> in the order of config.fields.
RECURSIVE MergeLocked(_, _)
MergeLocked(S, page_data) ==
    IF page_data = <<>> THEN S
    ELSE MergeLocked(MergeField(S, Head(page_data)[1], Head(page_data)[2]),
                     Tail(page_data))

\* _flush_batch: the combined payload, one list per key.
RECURSIVE Combined(_)
Combined(batch) ==
    IF batch = <<>> THEN [k \in Keys |-> <<>>]
    ELSE LET rest == Combined(Tail(batch))
             e == Head(batch)
         IN [rest EXCEPT ![e.key] = <<e.v>> \o @]

\* The page_data _extract_data can return under config.fields.
SeqsUpTo(S, n) == UNION {[1..k -> S] : k \in 0..n}
PageData(fs, items, scalar) ==
    [i \in 1..Len(fs) |-> IF IsListField(fs[i]) THEN <<fs[i], items>> ELSE <<fs[i], scalar>>]
ScalarValues(fs) == IF InSeq(fs, "title") THEN {None, Title} ELSE {None}

StatsEvents == {"page_success", "page_error", "page_skipped", "blocked", "entries_added"}

\* ScraperEngine.__init__ (scraper.py:75-114)
DataInit ==
    /\ fields \in FieldConfigs
    /\ aggregated_data = [k \in Keys |-> [present |-> FALSE, items |-> <<>>, v |-> None]]
    /\ seen_hashes = {}
    /\ recent_hashes = <<>>
    /\ false_positive_count = 0
    /\ pending_batch = <<>>
    /\ data_lock = Free
    /\ sink_calls = <<>>
    /\ stats = [e \in StatsEvents |-> 0]
    /\ arrivals = <<>>
    /\ appended = <<>>

(***************************************************************************)
(* ScraperEngine (src/engine/scraper.py): run(), the two drivers and       *)
(* _fetch_page.  Task 0 is the task of the caller, which awaits one        *)
(* coroutine of the engine at a time; tasks 1..MaxSeeds are the workers    *)
(* _run_list_mode creates.                                                 *)
(*                                                                         *)
(* The engine calls the coroutine functions of its CheckpointManager       *)
(* (get_incomplete, mark_in_progress, mark_done, close) without "await":   *)
(* each such call only builds a coroutine object, whose body never runs.   *)
(***************************************************************************)
Workers == 1..MaxSeeds
Main == 0
EngineMgr == 1          \* self.checkpoint is instance 1
EngineJob == 1          \* config.name
NoUrl == 0              \* None, where a URL is expected
NoSem == -1             \* no Semaphore exists: _run_list_mode has not created one

\* The seed lists, up to renaming of the URLs.
SeedLists == {s \in SeqsUpTo(URLs, MaxSeeds) : \A i \in 1..Len(s) : s[i] <= i}

ListConfigs ==
    [mode : {"list"}, start_urls : SeedLists, concurrency : 1..MaxConcurrency,
     rate_limit : 1..MaxRateLimit, use_checkpointing : BOOLEAN,
     respect_robots_txt : BOOLEAN, base_url : {1}, pagination : {0},
     proxies : {<<>>}]

\* pagination = 0 stands for "no pagination spec", n > 0 for max_pages = n.
PaginationConfigs ==
    [mode : {"pagination"}, start_urls : {<<>>}, concurrency : {MaxConcurrency},
     rate_limit : 1..MaxRateLimit, use_checkpointing : BOOLEAN,
     respect_robots_txt : BOOLEAN, base_url : {NoUrl, 1}, pagination : 0..MaxPages,
     proxies : {<<>>}]

\* What one request can come back with: a 200 with a body, a retryable status
\* or a network error (an exception inside _fetch_page), or an empty string
\* (another status, or a 200 with no text).
Outcomes == {"html", "retry", "empty"}

\* The site: the page at URL u lists one item, u - 1.
PageItems(u) == <<u - 1>>

\* _fetch_page under @retry(stop=stop_after_attempt(3), ...): what the caller
\* of _fetch_page sees after the attempt-th request came back with response:
\* "again" is another request after the backoff, "RetryError" the exception
\* tenacity raises when the attempts are used up.
fetch_page(attempt, response) ==
    IF response = "retry"
    THEN IF attempt >= StopAfterAttempt THEN "RetryError" ELSE "again"
    ELSE response

\* What the driver does with what _fetch_page gave it (scraper.py:221-226,
\* 247-252, 295-309): a non-empty body is processed; an empty one raises
\* Exception("Empty content") inside the try, which the except clause handles
\* like the RetryError of the fetch.
after_fetch_EmptyProcessed(r) ==
    IF r = "again" THEN "again" ELSE IF r \in {"html", "empty"} THEN "process" ELSE "except"

after_fetch(r) ==
    IF r = "again" THEN "again" ELSE IF r = "html" THEN "process" ELSE "except"

is_allowed_Always(url) == TRUE

\* _is_allowed: with no parser loaded (None) every URL is allowed.
is_allowed(url) ==
    IF ~cfg.respect_robots_txt \/ ~robots_parser.loaded THEN TRUE
    ELSE url \notin robots_parser.deny

\* self.robots_parser is None: never set, or reset by one of the two except
\* clauses of _init_robots_txt (scraper.py:188-193).
NoParser == [loaded |-> FALSE, deny |-> {}, read |-> "none"]

\* RobotFileParser.read() fetched and parsed robots.txt; can_fetch("*", url) is
\* False for the URLs in deny.
Parsed(deny) == [loaded |-> TRUE, deny |-> deny, read |-> "parsed"]

\* RobotFileParser.read() got an HTTP error for robots.txt (401, 403 or 5xx):
\* it catches the HTTPError itself and returns, so no except clause of
\* _init_robots_txt runs and the parser stays in place (scraper.py:182-187);
\* its can_fetch is False for every URL.
HttpError == [loaded |-> TRUE, deny |-> URLs, read |-> "http_error"]

\* The parser was created and read() has not come back (scraper.py:177-185).
Unread == [loaded |-> TRUE, deny |-> URLs, read |-> "none"]

\* What _init_robots_txt can leave in self.robots_parser when it returns.
RobotsOutcomes == {Parsed(deny) : deny \in SUBSET URLs} \cup {HttpError, NoParser}

Emit(st, e, n) == [st EXCEPT ![e] = @ + n]

Holders == {t \in Workers : pc[t] \in {"wait_limiter", "fetch", "merge", "in_sink",
                                        "merged", "sleep"}}
InFlight == {t \in Workers : pc[t] = "fetch"}

\* ScraperEngine.__init__ (scraper.py:69-114), for the config c.
EngInit(c) ==
    /\ cfg = c
    /\ entry = "none"
    /\ ncalls = 0
    /\ outcome = "none"
    /\ session_open = FALSE
    /\ robots_parser = NoParser
    /\ shutdown_requested = FALSE
    /\ sem = NoSem
    /\ bucket = 0
    /\ t_url = [t \in AllTasks |-> NoUrl]
    /\ t_attempt = [t \in AllTasks |-> 0]
    /\ pages_scraped = 0
    /\ failed_urls = <<>>
    /\ fetched = {}
    /\ requests_issued = 0
    /\ tokens_acquired = 0
    /\ mip_called = {}
    /\ md_called = {}
    /\ at_cancel = [set |-> FALSE, pending |-> <<>>, sinks |-> 0]
    /\ t_result = [t \in AllTasks |-> "none"]
    /\ fetch_calls = 0
    /\ proxy_pool = 0
    /\ proxy_log = <<>>

\* ScraperConfig with its defaults (schemas.py:125-150), pagination mode.
DefaultConfig ==
    [mode |-> "pagination", start_urls |-> <<>>, concurrency |-> MaxConcurrency,
     rate_limit |-> MaxRateLimit, use_checkpointing |-> TRUE,
     respect_robots_txt |-> TRUE, base_url |-> 1, pagination |-> 0,
     proxies |-> <<>>]

\* BrowserManager(config) (browser.py:24-32): nothing started, no context.
\* config.interactions is a list of n steps, named 1..n.
NoContext == 0
IdleCall == [pc |-> "idle", ctx |-> NoContext, step |-> 0, attempt |-> 0,
             log |-> <<>>, result |-> "none"]

BrowserManager(n) ==
    [playwright |-> FALSE, context |-> NoContext, request_count |-> 0,
     interactions |-> n]

BrowserNew(n) ==
    /\ bm = BrowserManager(n)
    /\ contexts = <<>>
    /\ b_task = [t \in BrTasks |-> IdleCall]
    /\ b_calls = 0
    /\ overlapped = FALSE

TaskInit ==
    /\ pc = [t \in AllTasks |-> "idle"]
    /\ t_page = [t \in AllTasks |-> <<>>]
    /\ t_flush = [t \in AllTasks |-> <<>>]
    /\ t_added = [t \in AllTasks |-> 0]
    /\ calls = 0

\* The data variables take the values of the record S.
SetData(S) ==
    /\ aggregated_data' = S.agg
    /\ seen_hashes' = S.seen
    /\ recent_hashes' = S.recent
    /\ false_positive_count' = S.fp
    /\ pending_batch' = S.pending
    /\ arrivals' = S.arrivals
    /\ appended' = S.appended

\* A task is created to run _merge_data(page_data).
DirectCall(t, items, scalar) ==
    /\ pc[t] = "idle"
    /\ \A u \in Tasks : pc[u] # "merge"
    /\ Len(arrivals) + Len(items) <= MaxArrivals
    /\ calls < MaxCalls
    /\ calls' = calls + 1
    /\ pc' = [pc EXCEPT ![t] = "merge"]
    /\ t_page' = [t_page EXCEPT ![t] = PageData(fields, items, scalar)]
    /\ UNCHANGED <<brVars, t_flush, t_added, dataVars, ckVars, engVars>>

LockAtSink_Held(t, batch_to_flush) == IF batch_to_flush # <<>> THEN t ELSE Free

\* data_lock when _merge_data or _flush_remaining_batches reaches its flush:
\* the "async with self.data_lock" block was left before (scraper.py:555-557,
\* 588-590).
LockAtSink(t, batch_to_flush) == Free

\* "async with" is left by task t, if it was inside.
Release(t) == IF data_lock = t THEN Free ELSE data_lock

\* _merge_data up to its first suspension (scraper.py:505-561): the critical
\* section holds no await, and neither does the release of data_lock, so when a
\* batch was detached the sink is invoked in the same step; the task then waits
\* in "await self.output_callback(combined)". With nothing to flush the call
\* runs to its end.
MergeData(t) ==
    /\ pc[t] = "merge"
    /\ data_lock = Free
    /\ LET S == MergeLocked(EngineData, t_page[t])
       IN /\ SetData(S)
          /\ data_lock' = LockAtSink(t, S.flush)
          /\ t_flush' = [t_flush EXCEPT ![t] = S.flush]
          /\ IF S.flush # <<>>
             THEN /\ sink_calls' = Append(sink_calls, Combined(S.flush))
                  /\ pc' = [pc EXCEPT ![t] = "in_sink"]
                  /\ t_added' = [t_added EXCEPT ![t] = S.added]
                  /\ UNCHANGED stats
             ELSE /\ UNCHANGED sink_calls
                  /\ pc' = [pc EXCEPT ![t] = "merged"]
                  /\ t_added' = [t_added EXCEPT ![t] = 0]
                  /\ stats' = [stats EXCEPT !["entries_added"] = @ + S.added]
    /\ t_page' = [t_page EXCEPT ![t] = <<>>]
    /\ UNCHANGED <<brVars, fields, calls, ckVars, engVars>>

\* output_callback returns; stats_callback(StatsEvent("entries_added", ...)).
SinkReturn(t) ==
    /\ pc[t] = "in_sink"
    /\ pc' = [pc EXCEPT ![t] = "merged"]
    /\ data_lock' = Release(t)
    /\ stats' = [stats EXCEPT !["entries_added"] = @ + t_added[t]]
    /\ t_flush' = [t_flush EXCEPT ![t] = <<>>]
    /\ t_added' = [t_added EXCEPT ![t] = 0]
    /\ UNCHANGED <<brVars, t_page, calls, ckVars, fields, aggregated_data, seen_hashes,
                   recent_hashes, false_positive_count, pending_batch, sink_calls,
                   arrivals, appended, engVars>>

\* A task is created to run _flush_remaining_batches (scraper.py:581-590).
\* batch_to_flush is bound only inside "if self.pending_batch:", so with nothing
\* pending line 589 raises UnboundLocalError after the lock was released;
\* otherwise the batch is detached inside the lock and _flush_batch awaits the
\* sink outside it.
FlushRemaining(t) ==
    /\ pc[t] = "idle"
    /\ data_lock = Free
    /\ calls < MaxCalls
    /\ calls' = calls + 1
    /\ IF pending_batch # <<>>
       THEN /\ t_flush' = [t_flush EXCEPT ![t] = pending_batch]
            /\ pending_batch' = <<>>
            /\ data_lock' = LockAtSink(t, pending_batch)
            /\ sink_calls' = Append(sink_calls, Combined(pending_batch))
            /\ pc' = [pc EXCEPT ![t] = "in_sink"]
       ELSE /\ pc' = [pc EXCEPT ![t] = "UnboundLocalError"]
            /\ UNCHANGED <<t_flush, pending_batch, data_lock, sink_calls>>
    /\ UNCHANGED <<brVars, t_page, t_added, fields, aggregated_data, seen_hashes, recent_hashes,
                   false_positive_count, stats, arrivals, appended, ckVars, engVars>>

\* The task that ran _merge_data or _flush_remaining_batches ends.
DirectReturn(t) ==
    /\ pc[t] \in {"merged", "UnboundLocalError"}
    /\ pc' = [pc EXCEPT ![t] = "idle"]
    /\ UNCHANGED <<brVars, t_page, t_flush, t_added, calls, dataVars, ckVars, engVars>>

(***************************************************************************)
(* CheckpointManager (src/engine/checkpoint.py).                           *)
(***************************************************************************)
NoRows == [k \in Jobs \X URLs |-> "none"]

NotCreated ==
    [created |-> FALSE, job |-> 1, enabled |-> FALSE, initialized |-> FALSE, cache |-> {}]

\* __init__: nothing is read from disk, the cache starts empty.
CheckpointManager(config_name, enabled) ==
    [created |-> TRUE, job |-> config_name, enabled |-> enabled,
     initialized |-> FALSE, cache |-> {}]

\* Mutant: the SELECT without its job_name condition.
DoneRows_AnyJob(d, job) == {u \in URLs : \E j \in Jobs : d[<<j, u>>] = "done"}

\* SELECT url FROM checkpoints WHERE job_name = ? AND status = 'done'
DoneRows(d, job) == {u \in URLs : d[<<job, u>>] = "done"}

\* SELECT url FROM checkpoints WHERE job_name = ? AND status = 'in_progress'
InProgressRows(d, job) == {u \in URLs : d[<<job, u>>] = "in_progress"}

\* INSERT OR REPLACE INTO checkpoints (...) VALUES (job, url, url, 'in_progress')
InsertOrReplace(d, job, u) == [d EXCEPT ![<<job, u>>] = "in_progress"]

\* UPDATE checkpoints SET status = 'done' WHERE job_name = ? AND url = ?
\* (changes the rows that exist; inserts none)
UpdateDone(d, job, u) ==
    [k \in DOMAIN d |-> IF k = <<job, u>> /\ d[k] # "none" THEN "done" ELSE d[k]]

\* initialize(): ok = FALSE is an exception from the database (caught: the
\* manager disables itself).
initialize(m, d, ok) ==
    IF ~m.enabled THEN m
    ELSE IF ~ok THEN [m EXCEPT !.enabled = FALSE]
    ELSE [m EXCEPT !.cache = DoneRows(d, m.job), !.initialized = TRUE]

is_done(m, u) == IF ~m.enabled THEN FALSE ELSE u \in m.cache

\* Mutant: the write is attempted whatever the state of the manager.
mark_in_progress_NoGuard(m, d, u, ok) ==
    IF ok THEN InsertOrReplace(d, m.job, u) ELSE d

\* mark_in_progress(): the new database; a failing write is logged and swallowed.
mark_in_progress(m, d, u, ok) ==
    IF ~m.enabled \/ ~m.initialized THEN d
    ELSE IF ok THEN InsertOrReplace(d, m.job, u) ELSE d

\* Mutant: the cache is updated before the write is attempted.
mark_done_CacheFirst(m, d, u, ok) ==
    IF ~m.enabled \/ ~m.initialized THEN <<m, d>>
    ELSE <<[m EXCEPT !.cache = @ \cup {u}], IF ok THEN UpdateDone(d, m.job, u) ELSE d>>

\* mark_done(): the new <<manager, database>>; the cache is updated after the
\* commit, so a failing write leaves both alone.
mark_done(m, d, u, ok) ==
    IF ~m.enabled \/ ~m.initialized THEN <<m, d>>
    ELSE IF ok THEN <<[m EXCEPT !.cache = @ \cup {u}], UpdateDone(d, m.job, u)>>
    ELSE <<m, d>>

get_incomplete(m, d) ==
    IF ~m.enabled \/ ~m.initialized THEN {} ELSE InProgressRows(d, m.job)

CkInit ==
    /\ db = NoRows
    /\ mgr = [i \in Mgrs |-> NotCreated]
    /\ marked = [i \in Mgrs |-> {}]
    /\ done_returned = {}
    /\ must_see = [i \in Mgrs |-> {}]

\* manager = CheckpointManager(name, enabled=...)
CkCreate(i, job, enabled) ==
    /\ ~mgr[i].created
    /\ mgr' = [mgr EXCEPT ![i] = CheckpointManager(job, enabled)]
    /\ UNCHANGED <<db, marked, done_returned, must_see>>
    /\ UNCHANGED <<brVars, dataVars, taskVars, engVars>>

\* await manager.initialize()
CkInitialize(i, ok) ==
    /\ mgr[i].created
    /\ mgr' = [mgr EXCEPT ![i] = initialize(mgr[i], db, ok)]
    /\ must_see' = [must_see EXCEPT ![i] =
                      IF mgr[i].enabled /\ ok
                      THEN {u \in URLs : <<mgr[i].job, u>> \in done_returned}
                      ELSE @]
    /\ UNCHANGED <<db, marked, done_returned>>
    /\ UNCHANGED <<brVars, dataVars, taskVars, engVars>>

\* await manager.mark_in_progress(u)
CkMarkInProgress(i, u, ok) ==
    /\ mgr[i].created
    /\ db' = mark_in_progress(mgr[i], db, u, ok)
    /\ UNCHANGED <<mgr, marked, done_returned, must_see>>
    /\ UNCHANGED <<brVars, dataVars, taskVars, engVars>>

\* await manager.mark_done(u)
CkMarkDone(i, u, ok) ==
    /\ mgr[i].created
    /\ mgr' = [mgr EXCEPT ![i] = mark_done(mgr[i], db, u, ok)[1]]
    /\ db' = mark_done(mgr[i], db, u, ok)[2]
    /\ LET wrote == mgr[i].enabled /\ mgr[i].initialized /\ ok
       IN /\ marked' = [marked EXCEPT ![i] = IF wrote THEN @ \cup {u} ELSE @]
          /\ done_returned' = IF wrote THEN done_returned \cup {<<mgr[i].job, u>>}
                              ELSE done_returned
    /\ UNCHANGED must_see
    /\ UNCHANGED <<brVars, dataVars, taskVars, engVars>>

CkNext ==
    \/ \E i \in Mgrs, job \in Jobs, enabled \in BOOLEAN : CkCreate(i, job, enabled)
    \/ \E i \in Mgrs, ok \in BOOLEAN : CkInitialize(i, ok)
    \/ \E i \in Mgrs, u \in URLs, ok \in BOOLEAN : CkMarkInProgress(i, u, ok)
    \/ \E i \in Mgrs, u \in URLs, ok \in BOOLEAN : CkMarkDone(i, u, ok)

CkptInit == CkInit /\ DataInit /\ TaskInit /\ EngInit(DefaultConfig) /\ BrowserNew(0)

SpecCkpt == CkptInit /\ [][CkNext]_vars

(***************************************************************************)
(* C2: for an enabled, initialised store, after mark_done(u) has written,  *)
(* is_done(u) is true on the same instance and on every instance of the    *)
(* same job initialised later, whether or not mark_in_progress(u) came     *)
(* first.                                                                  *)
(***************************************************************************)
C2_DonePersists ==
    \A i \in Mgrs :
        (mgr[i].enabled /\ mgr[i].initialized) =>
            \A u \in marked[i] \cup must_see[i] : is_done(mgr[i], u)

(***************************************************************************)
(* C28: a failing checkpoint write is swallowed.  On every manager, in     *)
(* every state, a mark_in_progress or mark_done whose database write fails *)
(* returns and leaves the database and the manager as they were; and a     *)
(* failing initialize leaves a manager for which is_done is false for      *)
(* every URL, get_incomplete is empty and every mark operation, also one   *)
(* whose write would succeed, changes nothing.                             *)
(***************************************************************************)
C28_FailedWriteIsSwallowed ==
    \A i \in Mgrs, u \in URLs :
        mgr[i].created =>
            /\ mark_in_progress(mgr[i], db, u, FALSE) = db
            /\ mark_done(mgr[i], db, u, FALSE) = <<mgr[i], db>>
            /\ mgr[i].enabled =>
                  LET m == initialize(mgr[i], db, FALSE)
                  IN /\ ~m.enabled
                     /\ ~is_done(m, u)
                     /\ get_incomplete(m, db) = {}
                     /\ mark_in_progress(m, db, u, TRUE) = db
                     /\ mark_done(m, db, u, TRUE) = <<m, db>>
            /\ ~mgr[i].enabled =>
                  /\ ~is_done(mgr[i], u)
                  /\ get_incomplete(mgr[i], db) = {}
                  /\ mark_in_progress(mgr[i], db, u, TRUE) = db
                  /\ mark_done(mgr[i], db, u, TRUE) = <<mgr[i], db>>

\* A manager that had loaded and written done URLs was disabled by an
\* initialize that failed, while the database holds rows of its job.
C28_Witness ==
    \E i \in Mgrs :
        /\ mgr[i].created /\ ~mgr[i].enabled /\ mgr[i].initialized
        /\ mgr[i].cache # {}
        /\ \E u \in URLs : db[<<mgr[i].job, u>>] = "in_progress"

(***************************************************************************)
(* C29: a manager created with enabled=False is inert.  Whatever was       *)
(* called on it and whatever the database holds, its cache is empty,       *)
(* is_done is false for every URL, get_incomplete is empty, and none of    *)
(* initialize, mark_in_progress and mark_done changes the database or the  *)
(* manager.                                                                *)
(***************************************************************************)
C29_DisabledStoreIsInert ==
    \A i \in Mgrs :
        (mgr[i].created /\ ~mgr[i].enabled /\ ~mgr[i].initialized) =>
            /\ mgr[i].cache = {}
            /\ get_incomplete(mgr[i], db) = {}
            /\ \A u \in URLs, ok \in BOOLEAN :
                  /\ ~is_done(mgr[i], u)
                  /\ initialize(mgr[i], db, ok) = mgr[i]
                  /\ mark_in_progress(mgr[i], db, u, ok) = db
                  /\ mark_done(mgr[i], db, u, ok) = <<mgr[i], db>>

\* A disabled manager of a job for which another manager has written a done
\* row and an in_progress row.
C29_Witness ==
    \E i \in Mgrs :
        /\ mgr[i].created /\ ~mgr[i].enabled /\ ~mgr[i].initialized
        /\ \E u, v \in URLs : /\ db[<<mgr[i].job, u>>] = "done"
                               /\ db[<<mgr[i].job, v>>] = "in_progress"

(***************************************************************************)
(* SpecMerge: tasks that await _merge_data on one engine.                  *)
(***************************************************************************)
MergeNext ==
    \/ \E t \in Tasks, items \in SeqsUpTo(Items, MaxPageItems), scalar \in ScalarValues(fields) :
          DirectCall(t, items, scalar)
    \/ \E t \in Tasks : MergeData(t)
    \/ \E t \in Tasks : FlushRemaining(t)
    \/ \E t \in Tasks : SinkReturn(t)
    \/ \E t \in Tasks : DirectReturn(t)

MergeInit == CkInit /\ DataInit /\ TaskInit /\ EngInit(DefaultConfig) /\ BrowserNew(0)

SpecMerge == MergeInit /\ [][MergeNext]_vars

(***************************************************************************)
(* Claims about _merge_data and _flush_batch, checked under SpecMerge.     *)
(***************************************************************************)
\* C17: the sink is never invoked while data_lock is held.  Whenever a task is
\* waiting in the sink, whether it came from _merge_data or from
\* _flush_remaining_batches, the lock is free, and every task that is about to
\* merge can take its step.
C17_SinkOutsideLock ==
    \A t \in Tasks :
        pc[t] = "in_sink" =>
            /\ data_lock = Free
            /\ \A u \in Tasks : pc[u] = "merge" => ENABLED MergeData(u)

\* One task is blocked in the sink while another one is about to merge.
C17_Witness ==
    \E t, u \in Tasks : pc[t] = "in_sink" /\ pc[u] = "merge"

\* Every value of the record is None (no selector of any field matched).
EmptyRecord(page_data) ==
    \A i \in DOMAIN page_data :
        ~IsListField(page_data[i][1]) /\ page_data[i][2] = None

(***************************************************************************)
(* C24: merging a record whose values are all None is a no-op: the pending *)
(* batch, the aggregated data, the Bloom set, the recent hashes and the    *)
(* false-positive counter stay as they are, the sink is not invoked and no *)
(* entries_added event is emitted.                                         *)
(***************************************************************************)
C24_EmptyRecordIsNoOp ==
    [][\A t \in Tasks :
          (pc[t] = "merge" /\ pc'[t] # "merge" /\ EmptyRecord(t_page[t])) =>
              /\ pending_batch' = pending_batch
              /\ aggregated_data' = aggregated_data
              /\ seen_hashes' = seen_hashes
              /\ recent_hashes' = recent_hashes
              /\ false_positive_count' = false_positive_count
              /\ sink_calls' = sink_calls
              /\ stats' = stats]_vars

\* The hashes seen_hashes.add was called with: the arrivals the filter did not
\* report (scraper.py:522-525).
AddedHashes == {item_hash(arrivals[i].item) : i \in {j \in DOMAIN arrivals : ~arrivals[j].hit}}

(***************************************************************************)
(* C22: the Bloom set has no false negatives.  After any sequence of adds  *)
(* and membership tests every added hash is reported present, and the bit  *)
(* array is exactly the union of the bits of the added hashes: no bit was  *)
(* cleared, by add or by a test.                                           *)
(***************************************************************************)
C22_NoFalseNegatives ==
    /\ \A h \in AddedHashes : BloomContains(seen_hashes, h)
    /\ seen_hashes = UNION {BloomAdd({}, h) : h \in AddedHashes}

\* Two hashes were added, and the filter reports a third one that never was.
C22_Witness ==
    /\ Cardinality(AddedHashes) >= 2
    /\ \E h \in 0..(NumHashes - 1) : h \notin AddedHashes /\ BloomContains(seen_hashes, h)

CountSeq(q, e) == Cardinality({i \in 1..Len(q) : q[i] = e})

\* How often the value e.v was handed to the sink under the key e.key.
Delivered(e) ==
    Cardinality({c \in (1..Len(sink_calls)) \X (1..MaxPageItems + MaxCalls + BatchSize) :
                   /\ c[2] <= Len(sink_calls[c[1]][e.key])
                   /\ sink_calls[c[1]][e.key][c[2]] = e.v})

Entries(q) == {q[i] : i \in 1..Len(q)}

\* The items of the arrivals that were kept, in order.
KeptItems ==
    LET k == SelectSeq(arrivals, LAMBDA a : a.kept)
    IN [i \in 1..Len(k) |-> k[i].item]

\* The list items appended to pending_batch, in order.
AppendedItems ==
    LET k == SelectSeq(appended, LAMBDA e : IsListField(e.key))
    IN [i \in 1..Len(k) |-> k[i].v]

FirstOfItsHash(i) ==
    \A j \in 1..(i - 1) : item_hash(arrivals[j].item) # item_hash(arrivals[i].item)

KeptBetween(i, j) == Cardinality({k \in (i + 1)..(j - 1) : arrivals[k].kept})

(***************************************************************************)
(* C25: records of identical content, list-valued or scalar, give one      *)
(* entry: as long as the false-positive counter is 0, no content other     *)
(* than null was appended to the pending batch more than once.             *)
(***************************************************************************)
C25_IdenticalContentOnce ==
    false_positive_count = 0 =>
        \A e \in Entries(appended) : e.v # None => CountSeq(appended, e) = 1

(***************************************************************************)
(* C5: every entry _merge_data appended to the pending batch is either     *)
(* still pending or was handed to the sink exactly once: no detached batch *)
(* is lost and none is delivered twice.                                    *)
(***************************************************************************)
C5_EveryKeptItemDeliveredOnce ==
    \A e \in Entries(appended) :
        CountSeq(appended, e) = CountSeq(pending_batch, e) + Delivered(e)

(***************************************************************************)
(* C7: an item whose canonical hash was in no earlier item is kept: it is  *)
(* appended to the aggregated data and to the pending batch, also when the *)
(* Bloom set reports its hash as present, and then the false-positive      *)
(* counter goes up by one.                                                 *)
(***************************************************************************)
C7_NewItemNeverDropped ==
    /\ KeptItems = aggregated_data["items"].items
    /\ KeptItems = AppendedItems
    /\ Len(arrivals) > 0 => false_positive_count = arrivals[Len(arrivals)].fp
    /\ \A i \in 1..Len(arrivals) :
          FirstOfItsHash(i) =>
              /\ arrivals[i].kept
              /\ arrivals[i].hit =>
                    arrivals[i].fp = (IF i = 1 THEN 0 ELSE arrivals[i - 1].fp) + 1

C7_Witness ==
    \E i \in 1..Len(arrivals) :
        /\ FirstOfItsHash(i) /\ arrivals[i].hit /\ arrivals[i].kept
        /\ false_positive_count >= 1
        /\ InSeq(aggregated_data["items"].items, arrivals[i].item)

(***************************************************************************)
(* C8: of two items with the same canonical hash, arriving from the same   *)
(* call or from different tasks with fewer than maxlen kept items between  *)
(* them, the second is not appended to the pending batch when the first    *)
(* was.                                                                    *)
(***************************************************************************)
C8_DuplicateInWindowDropped ==
    /\ KeptItems = AppendedItems
    /\ \A i, j \in 1..Len(arrivals) :
          ( /\ i < j
            /\ item_hash(arrivals[i].item) = item_hash(arrivals[j].item)
            /\ arrivals[i].kept
            /\ KeptBetween(i, j) < RecentMaxLen ) => ~arrivals[j].kept

C8_Witness ==
    \E i, j \in 1..Len(arrivals) :
        /\ i < j
        /\ item_hash(arrivals[i].item) = item_hash(arrivals[j].item)
        /\ arrivals[i].item # arrivals[j].item
        /\ arrivals[i].kept /\ ~arrivals[j].kept
        /\ KeptBetween(i, j) = RecentMaxLen - 1
        /\ calls = 2 /\ Len(t_page[1]) = 0 /\ Len(t_page[2]) = 0

\* data/checkpoints.db as an earlier process of the job may have left it
\* through awaited CheckpointManager calls (the rows SpecCkpt reaches); it is
\* only read when the config enables checkpointing.
PreviousStores ==
    IF cfg.use_checkpointing
    THEN {d \in [Jobs \X URLs -> {"none", "in_progress", "done"}] :
             \A k \in Jobs \X URLs : k[1] # EngineJob => d[k] = "none"}
    ELSE {NoRows}

\* engine = ScraperEngine(config, output_callback, stats_callback)
Init ==
    /\ \E c \in ListConfigs \cup PaginationConfigs : EngInit(c)
    /\ BrowserNew(0)
    /\ db \in PreviousStores
    /\ mgr = [i \in Mgrs |-> IF i = EngineMgr
                              THEN CheckpointManager(EngineJob, cfg.use_checkpointing)
                              ELSE NotCreated]
    /\ marked = [i \in Mgrs |-> {}]
    /\ done_returned = {}
    /\ must_see = [i \in Mgrs |-> {}]
    /\ DataInit
    /\ fields = <<"items">>
    /\ TaskInit

\* The caller's task is between two calls (a cancelled task makes no more, and
\* no more are followed after a driver raised a worker's exception).
Idle == pc[Main] = "idle" /\ outcome \notin {"CancelledError", "Exception"}

\* A coroutine of the engine ends: it returned or raised.
End(how) ==
    /\ outcome' = how
    /\ pc' = [t \in AllTasks |-> "idle"]

\* await engine.checkpoint.initialize(), by the caller: the engine never does.
CallerInitialize(ok) ==
    /\ Idle /\ ncalls = 0
    /\ mgr[EngineMgr].enabled /\ ~mgr[EngineMgr].initialized
    /\ CkInitialize(EngineMgr, ok)

(***************************************************************************)
(* run() (scraper.py:116-163)                                              *)
(***************************************************************************)
\* _setup_resources (a curl_cffi session: no await), then either the recovery
\* set or, with respect_robots_txt and a base_url, _init_robots_txt, which
\* waits for the robots.txt download.
RunStart ==
    /\ Idle /\ ncalls < MaxEngineCalls
    /\ ncalls' = ncalls + 1
    /\ entry' = "run"
    /\ outcome' = "none"
    /\ session_open' = TRUE
    /\ at_cancel' = [set |-> FALSE, pending |-> <<>>, sinks |-> 0]
    /\ pc' = [pc EXCEPT ![Main] =
                IF cfg.respect_robots_txt /\ cfg.base_url # NoUrl
                THEN "run_robots" ELSE "run_recover"]
    /\ UNCHANGED <<brVars, proxy_log, proxy_pool, fetch_calls, t_result, cfg, robots_parser, shutdown_requested, sem, bucket, t_url, t_attempt,
                   pages_scraped, failed_urls, fetched, requests_issued, tokens_acquired,
                   mip_called, md_called, ckVars, dataVars, t_page, t_flush, t_added, calls>>

\* _init_robots_txt: the parser is loaded, or a timeout or an error leaves None.
RunInitRobots(parser) ==
    /\ pc[Main] = "run_robots"
    /\ robots_parser' = parser
    /\ pc' = [pc EXCEPT ![Main] = "run_recover"]
    /\ UNCHANGED <<brVars, proxy_log, proxy_pool, fetch_calls, t_result, cfg, entry, ncalls, outcome, session_open, shutdown_requested, sem,
                   bucket, t_url, t_attempt, pages_scraped, failed_urls, fetched,
                   requests_issued, tokens_acquired, mip_called, md_called, at_cancel,
                   ckVars, dataVars, t_page, t_flush, t_added, calls>>

\* scraper.py:126-131: get_incomplete() is called without await, so
\* incomplete_urls is a coroutine object: it is truthy, and the comprehension
\* over it raises TypeError ('coroutine' object is not iterable).  This is
\* before the try statement: neither the except clause nor the finally clause
\* runs, the session stays open.
RunRecovery ==
    /\ pc[Main] = "run_recover"
    /\ End("TypeError")
    /\ UNCHANGED <<brVars, proxy_log, proxy_pool, fetch_calls, t_result, cfg, entry, ncalls, session_open, robots_parser, shutdown_requested,
                   sem, bucket, t_url, t_attempt, pages_scraped, failed_urls, fetched,
                   requests_issued, tokens_acquired, mip_called, md_called, at_cancel,
                   ckVars, dataVars, t_page, t_flush, t_added, calls>>

\* The task running run() is cancelled while _init_robots_txt waits:
\* CancelledError is no Exception, so it leaves _init_robots_txt and run().
\* self.robots_parser is left set to a RobotFileParser that has read nothing,
\* whose can_fetch is False for every URL.
RunCancel ==
    /\ pc[Main] = "run_robots"
    /\ robots_parser' = Unread
    /\ at_cancel' = [set |-> TRUE, pending |-> pending_batch, sinks |-> Len(sink_calls)]
    /\ End("CancelledError")
    /\ UNCHANGED <<brVars, proxy_log, proxy_pool, fetch_calls, t_result, cfg, entry, ncalls, session_open, shutdown_requested,
                   sem, bucket, t_url, t_attempt, pages_scraped, failed_urls, fetched,
                   requests_issued, tokens_acquired, mip_called, md_called,
                   ckVars, dataVars, t_page, t_flush, t_added, calls>>

(***************************************************************************)
(* _run_list_mode (scraper.py:254-326)                                     *)
(***************************************************************************)
\* list(set(...)): the elements of S in some order (here: ascending).
RECURSIVE SetToSeq(_)
SetToSeq(S) ==
    IF S = {} THEN <<>>
    ELSE LET x == CHOOSE y \in S : \A z \in S : y <= z
         IN <<x>> \o SetToSeq(S \ {x})

\* scraper.py:255-260: the seeds, merged with incomplete_urls when there are any.
MergedUrls(incomplete_urls) ==
    IF incomplete_urls # {}
    THEN SetToSeq({cfg.start_urls[i] : i \in 1..Len(cfg.start_urls)} \cup incomplete_urls)
    ELSE cfg.start_urls

\* Mutant: URLs that are done are not filtered out.
ListUrls_NoFilter(incomplete_urls) == MergedUrls(incomplete_urls)

\* scraper.py:262-265: the URLs to schedule.
ListUrls(incomplete_urls) ==
    IF cfg.use_checkpointing
    THEN SelectSeq(MergedUrls(incomplete_urls), LAMBDA u : ~is_done(mgr[EngineMgr], u))
    ELSE MergedUrls(incomplete_urls)

\* await engine._run_list_mode(incomplete_urls): up to "await
\* asyncio.gather(*tasks)".  The caller passes nothing (the default, []) or
\* the list it got from "await engine.checkpoint.get_incomplete()".
ListStart(incomplete_urls) ==
    /\ Idle /\ ncalls = 0 /\ cfg.mode = "list" /\ session_open
    /\ incomplete_urls \in {{}, get_incomplete(mgr[EngineMgr], db)}
    /\ ncalls' = ncalls + 1
    /\ entry' = "list"
    /\ LET urls == ListUrls(incomplete_urls)
           skipped == Len(MergedUrls(incomplete_urls)) - Len(urls)
       IN /\ stats' = IF cfg.use_checkpointing /\ skipped > 0
                      THEN Emit(stats, "page_skipped", skipped) ELSE stats
          /\ IF urls = <<>>
             THEN /\ outcome' = "returned"
                  /\ UNCHANGED <<pc, sem, t_url>>
             ELSE /\ outcome' = "none"
                  /\ sem' = cfg.concurrency
                  /\ t_url' = [t \in AllTasks |->
                                 IF t \in 1..Len(urls) THEN urls[t] ELSE NoUrl]
                  /\ pc' = [t \in AllTasks |->
                              IF t = Main THEN "gather"
                              ELSE IF t \in 1..Len(urls) THEN "created" ELSE "idle"]
    /\ UNCHANGED <<brVars, proxy_log, proxy_pool, fetch_calls, t_result, cfg, session_open, robots_parser, shutdown_requested, bucket, t_attempt,
                   pages_scraped, failed_urls, fetched, requests_issued, tokens_acquired,
                   mip_called, md_called, at_cancel, ckVars,
                   fields, aggregated_data, seen_hashes, recent_hashes,
                   false_positive_count, pending_batch, data_lock, sink_calls, arrivals, appended,
                   t_page, t_flush, t_added, calls>>

\* _worker(url) up to "async with sem" (scraper.py:279-288).
WorkerStart(t) ==
    /\ t \in Workers /\ pc[t] = "created"
    /\ IF shutdown_requested
       THEN /\ pc' = [pc EXCEPT ![t] = "done"]
            /\ UNCHANGED stats
       ELSE IF ~is_allowed(t_url[t])
       THEN /\ pc' = [pc EXCEPT ![t] = "done"]
            /\ stats' = Emit(stats, "blocked", 1)
       ELSE /\ pc' = [pc EXCEPT ![t] = "wait_sem"]
            /\ UNCHANGED stats
    /\ UNCHANGED <<brVars, proxy_log, proxy_pool, fetch_calls, t_result, cfg, entry, ncalls, outcome, session_open, robots_parser,
                   shutdown_requested, sem, bucket, t_url, t_attempt, pages_scraped,
                   failed_urls, fetched, requests_issued, tokens_acquired, mip_called,
                   md_called, at_cancel, ckVars,
                   fields, aggregated_data, seen_hashes, recent_hashes,
                   false_positive_count, pending_batch, data_lock, sink_calls, arrivals, appended,
                   t_page, t_flush, t_added, calls>>

SemAcquire_NoWait(t) == sem' = sem - 1

\* asyncio.Semaphore.acquire: takes a permit when one is free.
SemAcquire(t) == /\ sem > 0
                 /\ sem' = sem - 1

\* "async with sem" is entered.
AcquireSem(t) ==
    /\ t \in Workers /\ pc[t] = "wait_sem"
    /\ SemAcquire(t)
    /\ pc' = [pc EXCEPT ![t] = "wait_limiter"]
    /\ UNCHANGED <<brVars, proxy_log, proxy_pool, fetch_calls, t_result, cfg, entry, ncalls, outcome, session_open, robots_parser,
                   shutdown_requested, bucket, t_url, t_attempt, pages_scraped,
                   failed_urls, fetched, requests_issued, tokens_acquired, mip_called,
                   md_called, at_cancel, ckVars, dataVars, t_page, t_flush, t_added, calls>>

\* "async with self.rate_limiter" is entered (one token), mark_in_progress(url)
\* is called without await (no effect on the store), and _fetch_page issues its
\* first request (scraper.py:289-295).
AcquireLimiter(t) ==
    /\ t \in Workers /\ pc[t] = "wait_limiter"
    /\ bucket < cfg.rate_limit
    /\ bucket' = bucket + 1
    /\ tokens_acquired' = tokens_acquired + 1
    /\ mip_called' = mip_called \cup {t_url[t]}
    /\ fetched' = fetched \cup {t_url[t]}
    /\ requests_issued' = requests_issued + 1
    /\ fetch_calls' = fetch_calls + 1
    /\ t_attempt' = [t_attempt EXCEPT ![t] = 1]
    /\ pc' = [pc EXCEPT ![t] = "fetch"]
    /\ UNCHANGED <<brVars, proxy_log, proxy_pool, t_result, cfg, entry, ncalls, outcome, session_open, robots_parser,
                   shutdown_requested, sem, t_url, pages_scraped, failed_urls,
                   md_called, at_cancel, ckVars, dataVars, t_page, t_flush, t_added, calls>>

\* AsyncLimiter(rate_limit, 1): the bucket drains as time passes.
LimiterLeak ==
    /\ bucket > 0
    /\ \E t \in Workers : pc[t] = "wait_limiter"
    /\ bucket' = bucket - 1
    /\ UNCHANGED <<brVars, proxy_log, proxy_pool, fetch_calls, t_result, cfg, entry, ncalls, outcome, session_open, robots_parser,
                   shutdown_requested, sem, t_url, t_attempt, pages_scraped, failed_urls,
                   fetched, requests_issued, tokens_acquired, mip_called, md_called,
                   at_cancel, ckVars, dataVars, taskVars>>

\* A request of a worker comes back (scraper.py:295-309 and 436-487).
WorkerFetched(t, out) ==
    /\ t \in Workers /\ pc[t] = "fetch"
    /\ LET r == fetch_page(t_attempt[t], out)
       IN \/ /\ after_fetch(r) = "again"          \* backoff, then the next request
             /\ t_attempt' = [t_attempt EXCEPT ![t] = @ + 1]
             /\ requests_issued' = requests_issued + 1
             /\ UNCHANGED <<pc, t_page, failed_urls, stats, t_result>>
          \/ /\ after_fetch(r) = "process"   \* _process_content: _extract_data, then _merge_data
             /\ pc' = [pc EXCEPT ![t] = "merge"]
             /\ t_page' = [t_page EXCEPT ![t] = PageData(fields, PageItems(t_url[t]), None)]
             /\ t_result' = [t_result EXCEPT ![t] = r]
             /\ t_attempt' = [t_attempt EXCEPT ![t] = 0]
             /\ UNCHANGED <<requests_issued, failed_urls, stats>>
          \/ /\ after_fetch(r) = "except"   \* except Exception
             /\ t_result' = [t_result EXCEPT ![t] = r]
             /\ t_attempt' = [t_attempt EXCEPT ![t] = 0]
             /\ failed_urls' = Append(failed_urls, t_url[t])
             /\ stats' = Emit(stats, "page_error", 1)
             /\ pc' = [pc EXCEPT ![t] = "sleep"]
             /\ UNCHANGED <<requests_issued, t_page>>
    /\ UNCHANGED <<brVars, proxy_log, proxy_pool, fetch_calls, cfg, entry, ncalls, outcome, session_open, robots_parser,
                   shutdown_requested, sem, bucket, t_url, pages_scraped, fetched,
                   tokens_acquired, mip_called, md_called, at_cancel, ckVars,
                   fields, aggregated_data, seen_hashes, recent_hashes,
                   false_positive_count, pending_batch, data_lock, sink_calls, arrivals, appended,
                   t_flush, t_added, calls>>

\* _merge_data returned: mark_done(url) is called without await (no effect on
\* the store), page_success, then the jitter sleep (scraper.py:298-312).
WorkerMerged(t) ==
    /\ t \in Workers /\ pc[t] = "merged"
    /\ md_called' = md_called \cup {t_url[t]}
    /\ stats' = Emit(stats, "page_success", 1)
    /\ pc' = [pc EXCEPT ![t] = "sleep"]
    /\ UNCHANGED <<brVars, proxy_log, proxy_pool, fetch_calls, t_result, cfg, entry, ncalls, outcome, session_open, robots_parser,
                   shutdown_requested, sem, bucket, t_url, t_attempt, pages_scraped,
                   failed_urls, fetched, requests_issued, tokens_acquired, mip_called,
                   at_cancel, ckVars,
                   fields, aggregated_data, seen_hashes, recent_hashes,
                   false_positive_count, pending_batch, data_lock, sink_calls, arrivals, appended,
                   t_page, t_flush, t_added, calls>>

\* output_callback raises in a worker (an OSError of the writer, say): the
\* exception leaves _flush_batch, _merge_data and _process_content and is
\* caught by "except Exception" (scraper.py:305-309).
WorkerSinkRaised(t) ==
    /\ t \in Workers /\ pc[t] = "in_sink"
    /\ data_lock' = Release(t)
    /\ t_result' = [t_result EXCEPT ![t] = "process_error"]
    /\ failed_urls' = Append(failed_urls, t_url[t])
    /\ stats' = Emit(stats, "page_error", 1)
    /\ pc' = [pc EXCEPT ![t] = "sleep"]
    /\ t_flush' = [t_flush EXCEPT ![t] = <<>>]
    /\ t_added' = [t_added EXCEPT ![t] = 0]
    /\ UNCHANGED <<brVars, proxy_log, proxy_pool, fetch_calls, cfg, entry, ncalls, outcome, session_open, robots_parser,
                   shutdown_requested, sem, bucket, t_url, t_attempt, pages_scraped,
                   fetched, requests_issued, tokens_acquired, mip_called, md_called,
                   at_cancel, ckVars,
                   fields, aggregated_data, seen_hashes, recent_hashes,
                   false_positive_count, pending_batch, sink_calls, arrivals, appended,
                   t_page, calls>>

\* asyncio.Semaphore.release, n permits.
SemRelease(n) == sem' = sem + n

\* A fetch of a worker fails and stats_callback raises inside the
\* "except Exception" handler (scraper.py:305-309): the URL was appended to
\* failed_urls, the callback was invoked, and its exception is handled by
\* nothing in _worker.  It leaves both "async with" blocks (the permit is
\* released) and ends the worker's task.
WorkerRaised(t, out) ==
    /\ t \in Workers /\ pc[t] = "fetch"
    /\ fetch_page(t_attempt[t], out) \in {"empty", "RetryError"}
    /\ t_result' = [t_result EXCEPT ![t] = fetch_page(t_attempt[t], out)]
    /\ t_attempt' = [t_attempt EXCEPT ![t] = 0]
    /\ failed_urls' = Append(failed_urls, t_url[t])
    /\ stats' = Emit(stats, "page_error", 1)
    /\ SemRelease(1)
    /\ pc' = [pc EXCEPT ![t] = "raised"]
    /\ UNCHANGED <<brVars, proxy_log, proxy_pool, fetch_calls, cfg, entry, ncalls, outcome, session_open, robots_parser,
                   shutdown_requested, bucket, t_url, pages_scraped, fetched,
                   requests_issued, tokens_acquired, mip_called, md_called, at_cancel, ckVars,
                   fields, aggregated_data, seen_hashes, recent_hashes,
                   false_positive_count, pending_batch, data_lock, sink_calls, arrivals, appended,
                   t_page, t_flush, t_added, calls>>

\* gather(*tasks) without return_exceptions (scraper.py:316-318): the first
\* exception of a worker is raised in the driver.  It is no CancelledError, so
\* the except clause at 319 does not run; _run_list_mode raises, nothing
\* cancels the other workers, which go on as tasks of the event loop, and
\* nothing assigns shutdown_requested.
ListRaised ==
    /\ pc[Main] = "gather"
    /\ \E t \in Workers : pc[t] = "raised"
    /\ outcome' = "Exception"
    /\ pc' = [pc EXCEPT ![Main] = "idle"]
    /\ UNCHANGED <<brVars, proxy_log, proxy_pool, fetch_calls, t_result, cfg, entry, ncalls, session_open, robots_parser,
                   shutdown_requested, sem, bucket, t_url, t_attempt, pages_scraped,
                   failed_urls, fetched, requests_issued, tokens_acquired, mip_called,
                   md_called, at_cancel, ckVars, dataVars, t_page, t_flush, t_added, calls>>

\* The sleep ends; both context managers are left, the permit is released.
WorkerExit(t) ==
    /\ t \in Workers /\ pc[t] = "sleep"
    /\ SemRelease(1)
    /\ pc' = [pc EXCEPT ![t] = "done"]
    /\ UNCHANGED <<brVars, proxy_log, proxy_pool, fetch_calls, t_result, cfg, entry, ncalls, outcome, session_open, robots_parser,
                   shutdown_requested, bucket, t_url, t_attempt, pages_scraped,
                   failed_urls, fetched, requests_issued, tokens_acquired, mip_called,
                   md_called, at_cancel, ckVars, dataVars, t_page, t_flush, t_added, calls>>

\* gather returns: every worker is done, _run_list_mode returns.
ListReturn ==
    /\ pc[Main] = "gather"
    /\ \A t \in Workers : pc[t] \in {"idle", "done"}
    /\ End("returned")
    /\ UNCHANGED <<brVars, proxy_log, proxy_pool, fetch_calls, t_result, cfg, entry, ncalls, session_open, robots_parser, shutdown_requested,
                   sem, bucket, t_url, t_attempt, pages_scraped, failed_urls, fetched,
                   requests_issued, tokens_acquired, mip_called, md_called, at_cancel,
                   ckVars, dataVars, t_page, t_flush, t_added, calls>>

\* The caller's task is cancelled in gather (scraper.py:319-326): gather cancels
\* the workers, each leaves its "async with" blocks on CancelledError (a
\* holder's permit is released), and the driver re-raises.
ListCancel ==
    /\ pc[Main] = "gather"
    /\ \E t \in Workers : pc[t] \notin {"idle", "done"}
    /\ SemRelease(Cardinality(Holders))
    /\ End("CancelledError")
    /\ t_page' = [t \in AllTasks |-> <<>>]
    /\ t_flush' = [t \in AllTasks |-> <<>>]
    /\ t_added' = [t \in AllTasks |-> 0]
    /\ UNCHANGED <<brVars, proxy_log, proxy_pool, fetch_calls, t_result, cfg, entry, ncalls, session_open, robots_parser, shutdown_requested,
                   bucket, t_url, t_attempt, pages_scraped, failed_urls, fetched,
                   requests_issued, tokens_acquired, mip_called, md_called, at_cancel,
                   ckVars, dataVars, calls>>

(***************************************************************************)
(* _run_pagination_mode (scraper.py:200-252)                               *)
(***************************************************************************)
max_pages_PlusOne == IF cfg.pagination # 0 THEN cfg.pagination + 1 ELSE 2

max_pages == IF cfg.pagination # 0 THEN cfg.pagination ELSE 1

\* The top of the while loop for current_url = url after pages pages: the loop
\* ends, or robots.txt blocks the URL, or mark_in_progress(url) is called
\* without await (no effect on the store) and _fetch_page issues its first
\* request.  No rate-limiter token is taken anywhere in this driver.
PagLoop(url, pages) ==
    /\ pages_scraped' = pages
    /\ IF ~(pages < max_pages /\ url # NoUrl /\ ~shutdown_requested)
       THEN /\ End("returned")
            /\ UNCHANGED <<stats, mip_called, fetched, requests_issued, fetch_calls,
                           t_attempt, t_url>>
       ELSE IF ~is_allowed(url)
       THEN /\ stats' = Emit(stats, "blocked", 1)
            /\ End("returned")
            /\ UNCHANGED <<mip_called, fetched, requests_issued, fetch_calls,
                           t_attempt, t_url>>
       ELSE /\ mip_called' = mip_called \cup {url}
            /\ fetched' = fetched \cup {url}
            /\ requests_issued' = requests_issued + 1
            /\ fetch_calls' = fetch_calls + 1
            /\ t_attempt' = [t_attempt EXCEPT ![Main] = 1]
            /\ t_url' = [t_url EXCEPT ![Main] = url]
            /\ pc' = [pc EXCEPT ![Main] = "fetch"]
            /\ outcome' = "none"
            /\ UNCHANGED stats

\* await engine._run_pagination_mode()
PagStart ==
    /\ Idle /\ ncalls = 0 /\ cfg.mode = "pagination" /\ session_open
    /\ ncalls' = ncalls + 1
    /\ entry' = "pagination"
    /\ IF cfg.base_url = NoUrl
       THEN /\ End("returned")
            /\ UNCHANGED <<stats, mip_called, fetched, requests_issued, fetch_calls,
                           t_attempt, t_url, pages_scraped>>
       ELSE PagLoop(cfg.base_url, 0)
    /\ UNCHANGED <<brVars, proxy_log, proxy_pool, t_result, cfg, session_open, robots_parser, shutdown_requested, sem, bucket,
                   failed_urls, tokens_acquired, md_called, at_cancel, ckVars,
                   fields, aggregated_data, seen_hashes, recent_hashes,
                   false_positive_count, pending_batch, data_lock, sink_calls, arrivals, appended,
                   t_page, t_flush, t_added, calls>>

\* A request of the pagination driver comes back (scraper.py:221-226, 247-252).
PagFetched(out) ==
    /\ entry = "pagination" /\ pc[Main] = "fetch"
    /\ LET r == fetch_page(t_attempt[Main], out)
       IN \/ /\ after_fetch(r) = "again"
             /\ t_attempt' = [t_attempt EXCEPT ![Main] = @ + 1]
             /\ requests_issued' = requests_issued + 1
             /\ UNCHANGED <<pc, outcome, t_page, failed_urls, stats, t_result>>
          \/ /\ after_fetch(r) = "process"
             /\ pc' = [pc EXCEPT ![Main] = "merge"]
             /\ t_page' = [t_page EXCEPT ![Main] =
                              PageData(fields, PageItems(t_url[Main]), None)]
             /\ t_result' = [t_result EXCEPT ![Main] = r]
             /\ t_attempt' = [t_attempt EXCEPT ![Main] = 0]
             /\ UNCHANGED <<outcome, requests_issued, failed_urls, stats>>
          \/ /\ after_fetch(r) = "except"   \* except Exception: ... break
             /\ t_result' = [t_result EXCEPT ![Main] = r]
             /\ t_attempt' = [t_attempt EXCEPT ![Main] = 0]
             /\ failed_urls' = Append(failed_urls, t_url[Main])
             /\ stats' = Emit(stats, "page_error", 1)
             /\ End("returned")
             /\ UNCHANGED <<requests_issued, t_page>>
    /\ UNCHANGED <<brVars, proxy_log, proxy_pool, fetch_calls, cfg, entry, ncalls, session_open, robots_parser, shutdown_requested,
                   sem, bucket, t_url, pages_scraped, fetched, tokens_acquired, mip_called,
                   md_called, at_cancel, ckVars,
                   fields, aggregated_data, seen_hashes, recent_hashes,
                   false_positive_count, pending_batch, data_lock, sink_calls, arrivals, appended,
                   t_flush, t_added, calls>>

\* _process_content returned (scraper.py:228-245): mark_done is called without
\* await, page_success, and the next link (NoUrl: none found) decides whether
\* the driver sleeps before the next page or leaves the loop.
PagMerged(next_link) ==
    /\ entry = "pagination" /\ pc[Main] = "merged"
    /\ md_called' = md_called \cup {t_url[Main]}
    /\ stats' = Emit(stats, "page_success", 1)
    /\ pages_scraped' = pages_scraped + 1
    /\ IF cfg.pagination # 0 /\ pages_scraped + 1 < max_pages
       THEN IF next_link # NoUrl
            THEN /\ t_url' = [t_url EXCEPT ![Main] = next_link]
                 /\ pc' = [pc EXCEPT ![Main] = "sleep"]
                 /\ UNCHANGED outcome
            ELSE /\ t_url' = [t_url EXCEPT ![Main] = NoUrl]
                 /\ End("returned")
       ELSE /\ t_url' = [t_url EXCEPT ![Main] = NoUrl]   \* the link is not looked for
            /\ End("returned")
    /\ UNCHANGED <<brVars, proxy_log, proxy_pool, fetch_calls, t_result, cfg, entry, ncalls, session_open, robots_parser, shutdown_requested,
                   sem, bucket, t_attempt, failed_urls, fetched, requests_issued,
                   tokens_acquired, mip_called, at_cancel, ckVars,
                   fields, aggregated_data, seen_hashes, recent_hashes,
                   false_positive_count, pending_batch, data_lock, sink_calls, arrivals, appended,
                   t_page, t_flush, t_added, calls>>

\* output_callback raises in the pagination driver: the exception is caught by
\* "except Exception" (scraper.py:247-252) and the loop is left.
PagSinkRaised ==
    /\ entry = "pagination" /\ pc[Main] = "in_sink"
    /\ data_lock' = Release(Main)
    /\ t_result' = [t_result EXCEPT ![Main] = "process_error"]
    /\ failed_urls' = Append(failed_urls, t_url[Main])
    /\ stats' = Emit(stats, "page_error", 1)
    /\ End("returned")
    /\ t_flush' = [t_flush EXCEPT ![Main] = <<>>]
    /\ t_added' = [t_added EXCEPT ![Main] = 0]
    /\ UNCHANGED <<brVars, proxy_log, proxy_pool, fetch_calls, cfg, entry, ncalls, session_open, robots_parser,
                   shutdown_requested, sem, bucket, t_url, t_attempt, pages_scraped,
                   fetched, requests_issued, tokens_acquired, mip_called, md_called,
                   at_cancel, ckVars,
                   fields, aggregated_data, seen_hashes, recent_hashes,
                   false_positive_count, pending_batch, sink_calls, arrivals, appended,
                   t_page, calls>>

\* The sleep between two pages ends: the loop condition is tested again.
PagSleepDone ==
    /\ entry = "pagination" /\ pc[Main] = "sleep"
    /\ PagLoop(t_url[Main], pages_scraped)
    /\ UNCHANGED <<brVars, proxy_log, proxy_pool, t_result, cfg, entry, ncalls, session_open, robots_parser, shutdown_requested,
                   sem, bucket, failed_urls, tokens_acquired, md_called, at_cancel, ckVars,
                   fields, aggregated_data, seen_hashes, recent_hashes,
                   false_positive_count, pending_batch, data_lock, sink_calls, arrivals, appended,
                   t_page, t_flush, t_added, calls>>

\* The caller's task is cancelled at an await of the driver (the fetch, the
\* sink or the sleep): CancelledError passes "except Exception".
PagCancel ==
    /\ entry = "pagination" /\ pc[Main] \in {"fetch", "in_sink", "sleep"}
    /\ End("CancelledError")
    /\ t_flush' = [t_flush EXCEPT ![Main] = <<>>]
    /\ t_added' = [t_added EXCEPT ![Main] = 0]
    /\ UNCHANGED <<brVars, proxy_log, proxy_pool, fetch_calls, t_result, cfg, entry, ncalls, session_open, robots_parser, shutdown_requested,
                   sem, bucket, t_url, t_attempt, pages_scraped, failed_urls, fetched,
                   requests_issued, tokens_acquired, mip_called, md_called, at_cancel,
                   ckVars, dataVars, t_page, calls>>

\* engine.shutdown_requested = True, by the program that embeds the engine while
\* a driver runs: the attribute is created False (scraper.py:114) and the
\* engine only reads it (scraper.py:209, 279).
RequestShutdown ==
    /\ entry \in {"list", "pagination"} /\ outcome = "none"
    /\ ~shutdown_requested
    /\ shutdown_requested' = TRUE
    /\ UNCHANGED <<brVars, proxy_log, proxy_pool, fetch_calls, t_result, cfg, entry, ncalls, outcome, session_open, robots_parser,
                   sem, bucket, t_url, t_attempt, pages_scraped, failed_urls, fetched,
                   requests_issued, tokens_acquired, mip_called, md_called, at_cancel,
                   ckVars, dataVars, taskVars>>

\* await engine._setup_resources(), by the caller (scraper.py:337-366).
CallerSetup ==
    /\ Idle /\ ncalls = 0 /\ ~session_open
    /\ session_open' = TRUE
    /\ UNCHANGED <<brVars, proxy_log, proxy_pool, fetch_calls, t_result, cfg, entry, ncalls, outcome, robots_parser, shutdown_requested, sem,
                   bucket, t_url, t_attempt, pages_scraped, failed_urls, fetched,
                   requests_issued, tokens_acquired, mip_called, md_called, at_cancel,
                   ckVars, dataVars, taskVars>>

\* await engine._init_robots_txt(), by the caller.
CallerInitRobots(parser) ==
    /\ Idle /\ ncalls = 0 /\ session_open
    /\ cfg.respect_robots_txt /\ cfg.base_url # NoUrl /\ ~robots_parser.loaded
    /\ parser.loaded
    /\ robots_parser' = parser
    /\ UNCHANGED <<brVars, proxy_log, proxy_pool, fetch_calls, t_result, cfg, entry, ncalls, outcome, session_open, shutdown_requested, sem,
                   bucket, t_url, t_attempt, pages_scraped, failed_urls, fetched,
                   requests_issued, tokens_acquired, mip_called, md_called, at_cancel,
                   ckVars, dataVars, taskVars>>

Next ==
    \/ RequestShutdown
    \/ \E ok \in BOOLEAN : CallerInitialize(ok)
    \/ CallerSetup
    \/ \E parser \in RobotsOutcomes : CallerInitRobots(parser)
    \/ RunStart
    \/ \E parser \in RobotsOutcomes : RunInitRobots(parser)
    \/ RunRecovery
    \/ RunCancel
    \/ \E incomplete_urls \in SUBSET URLs : ListStart(incomplete_urls)
    \/ \E t \in Workers : WorkerStart(t)
    \/ \E t \in Workers : AcquireSem(t)
    \/ \E t \in Workers : AcquireLimiter(t)
    \/ LimiterLeak
    \/ \E t \in Workers, out \in Outcomes : WorkerFetched(t, out)
    \/ \E t \in AllTasks : MergeData(t)
    \/ \E t \in AllTasks : SinkReturn(t)
    \/ \E t \in Workers : WorkerSinkRaised(t)
    \/ PagSinkRaised
    \/ \E t \in Workers : WorkerMerged(t)
    \/ \E t \in Workers : WorkerExit(t)
    \/ \E t \in Workers, out \in Outcomes : WorkerRaised(t, out)
    \/ ListRaised
    \/ ListReturn
    \/ ListCancel
    \/ PagStart
    \/ \E out \in Outcomes : PagFetched(out)
    \/ \E next_link \in {NoUrl} \cup URLs : PagMerged(next_link)
    \/ PagSleepDone
    \/ PagCancel

Spec == Init /\ [][Next]_vars

(***************************************************************************)
(* SpecProxy: _get_next_proxy on an engine with config.proxies set         *)
(* (scraper.py:106-107, 165-168).  The configurations of Spec have no      *)
(* proxies: there every call returns None and the pool does not exist.     *)
(***************************************************************************)
NoProxy == 0            \* None
ProxyLists == SeqsUpTo(1..NumProxies, MaxProxies)

\* Mutant: the pool is read and not advanced.
get_next_proxy_NoAdvance(pool, proxies) ==
    IF proxies # <<>> THEN <<proxies[pool + 1], pool>> ELSE <<NoProxy, pool>>

\* _get_next_proxy: <<the value returned, the pool afterwards>>.  The pool is
\* cycle(config.proxies) when the list is not empty, else None; next() of a
\* cycle gives the elements in order and starts again after the last.
get_next_proxy(pool, proxies) ==
    IF proxies # <<>>
    THEN <<proxies[pool + 1], (pool + 1) % Len(proxies)>>
    ELSE <<NoProxy, pool>>

\* engine._get_next_proxy() is called.
GetNextProxy ==
    /\ Len(proxy_log) < MaxProxyCalls
    /\ proxy_log' = Append(proxy_log, get_next_proxy(proxy_pool, cfg.proxies)[1])
    /\ proxy_pool' = get_next_proxy(proxy_pool, cfg.proxies)[2]
    /\ UNCHANGED <<brVars, fetch_calls, t_result, cfg, entry, ncalls, outcome, session_open,
                   robots_parser, shutdown_requested, sem, bucket, t_url, t_attempt,
                   pages_scraped, failed_urls, fetched, requests_issued, tokens_acquired,
                   mip_called, md_called, at_cancel, ckVars, dataVars, taskVars>>

ProxyInit ==
    /\ \E proxies \in ProxyLists : EngInit([DefaultConfig EXCEPT !.proxies = proxies])
    /\ CkInit /\ DataInit /\ fields = <<"items">> /\ TaskInit
    /\ BrowserNew(0)

SpecProxy == ProxyInit /\ [][GetNextProxy]_vars

(***************************************************************************)
(* C30: proxy rotation is round-robin.  With n >= 1 proxies the k-th call  *)
(* of _get_next_proxy returns proxies[(k-1) mod n] (counting from 0); with *)
(* none every call returns None.                                           *)
(***************************************************************************)
C30_RoundRobin ==
    \A k \in DOMAIN proxy_log :
        proxy_log[k] = IF cfg.proxies = <<>> THEN NoProxy
                       ELSE cfg.proxies[((k - 1) % Len(cfg.proxies)) + 1]

\* Two different proxies are configured and the calls have gone round twice.
C30_Witness ==
    /\ Len(cfg.proxies) = 2 /\ cfg.proxies[1] # cfg.proxies[2]
    /\ Len(proxy_log) = 4


(***************************************************************************)
(* Claims about the drivers and run(), checked under Spec.                 *)
(***************************************************************************)
\* The store of the engine is enabled and initialised (by the caller).
StoreReady == mgr[EngineMgr].enabled /\ mgr[EngineMgr].initialized

\* get_incomplete() of a new instance for the same job, initialised on the
\* database as it stands: what a restarted process reads.
IncompleteAfterRestart ==
    get_incomplete(initialize(CheckpointManager(EngineJob, TRUE), db, TRUE), db)

(***************************************************************************)
(* C1: in both drivers, with the store enabled and initialised, a URL for  *)
(* which a request was issued is recorded in the store: in_progress from   *)
(* before the request until the engine has called mark_done for it after   *)
(* the merge, and done from then on.                                       *)
(***************************************************************************)
C1_InProgressBeforeFetch ==
    StoreReady =>
        /\ \A u \in fetched : db[<<EngineJob, u>>] \in {"in_progress", "done"}
        /\ \A u \in md_called : db[<<EngineJob, u>>] = "done"

(***************************************************************************)
(* C3: with checkpointing enabled, a URL the engine called                 *)
(* mark_in_progress for and not mark_done is in get_incomplete() after a   *)
(* restart at any point.                                                   *)
(***************************************************************************)
C3_IncompleteAfterRestart ==
    (cfg.use_checkpointing /\ StoreReady) =>
        \A u \in mip_called \ md_called : u \in IncompleteAfterRestart

(***************************************************************************)
(* C4: a run() that is not cancelled completes normally, and when it has   *)
(* returned the pending batch is empty and every entry appended to it was  *)
(* given to the sink.                                                      *)
(***************************************************************************)
C4_NormalCompletionFlushes ==
    (entry = "run" /\ outcome \notin {"none", "CancelledError"}) =>
        /\ outcome = "returned"
        /\ pending_batch = <<>>
        /\ \A e \in Entries(appended) : Delivered(e) >= 1

(***************************************************************************)
(* C6: when run() was cancelled with k records pending, 1 <= k <           *)
(* batch_size, the sink was invoked exactly once more, with exactly those  *)
(* records, nothing is left pending, and the session is closed when the    *)
(* CancelledError reaches the caller.                                      *)
(***************************************************************************)
C6_CancelFlushesOnce ==
    ( /\ entry = "run" /\ outcome = "CancelledError" /\ at_cancel.set
      /\ Len(at_cancel.pending) >= 1 /\ Len(at_cancel.pending) < BatchSize ) =>
        /\ Len(sink_calls) = at_cancel.sinks + 1
        /\ sink_calls[Len(sink_calls)] = Combined(at_cancel.pending)
        /\ pending_batch = <<>>
        /\ ~session_open

(***************************************************************************)
(* C9: in list mode at most config.concurrency fetches are in flight; the  *)
(* permits taken and the free permits add up to config.concurrency while   *)
(* the workers run (also those that go on after the driver raised the     *)
(* exception of a worker), and every permit is back when the driver has    *)
(* ended by return or by cancellation.                                     *)
(***************************************************************************)
C9_InFlightWithinConcurrency ==
    /\ Cardinality(InFlight) <= cfg.concurrency
    /\ (pc[Main] = "gather" \/ outcome = "Exception") =>
          sem + Cardinality(Holders) = cfg.concurrency
    /\ (pc[Main] # "gather" /\ outcome # "Exception") =>
          /\ sem \in {NoSem, cfg.concurrency}
          /\ Holders = {}

\* More workers than permits: one waits for a permit while the permits are
\* all taken by fetches in flight.
C9_Witness ==
    /\ \E t \in Workers : pc[t] = "wait_sem"
    /\ sem = 0
    /\ Cardinality(InFlight) = cfg.concurrency

(***************************************************************************)
(* C10: a rate-limiter token is taken for every request issued, by either  *)
(* driver and for every attempt of _fetch_page: no more requests than      *)
(* tokens.                                                                 *)
(***************************************************************************)
C10_TokenPerRequest == requests_issued <= tokens_acquired


\* The tasks whose page of URL u failed: the retries used up, an empty body,
\* or an exception from _process_content.
Failures == {"empty", "RetryError", "process_error"}
FailedFetches(u) == {t \in AllTasks : t_url[t] = u /\ t_result[t] \in Failures}

\* The events and the failure list agree with what the fetches did.
FailureAccounting ==
    /\ stats["page_error"] = Len(failed_urls)
    /\ entry = "pagination" => stats["page_success"] = pages_scraped
    /\ pc[Main] = "gather" =>
          stats["page_success"] =
              Cardinality({t \in Workers : t_result[t] = "html" /\ pc[t] \in {"sleep", "done"}})
    /\ \A t \in AllTasks : t_result[t] = "RetryError" =>
          /\ CountSeq(failed_urls, t_url[t]) = Cardinality(FailedFetches(t_url[t]))
          /\ pc[t] \notin {"merge", "in_sink", "merged"}

\* A fetch ends in RetryError only at the third attempt.
RetryErrorAtThirdAttempt ==
    [][\A t \in AllTasks :
          (t_result'[t] = "RetryError" /\ t_attempt[t] # 0 /\ t_attempt'[t] = 0) =>
              t_attempt[t] = StopAfterAttempt]_vars

(***************************************************************************)
(* C11: a fetch all of whose requests came back retryable made exactly 3   *)
(* attempts, emitted one page_error and no page_success, put its URL on    *)
(* failed_urls once, and its URL is in_progress in the store.              *)
(***************************************************************************)
C11_ExhaustedRetries ==
    /\ FailureAccounting
    /\ StoreReady =>
          \A t \in AllTasks : t_result[t] = "RetryError" =>
              db[<<EngineJob, t_url[t]>>] = "in_progress"


\* The seeds and the URLs the store holds as in_progress, as a list without
\* repetitions, and those of them the store holds as done.
RestartUrls == MergedUrls(get_incomplete(mgr[EngineMgr], db))
RestartWorkSet ==
    {RestartUrls[i] : i \in 1..Len(RestartUrls)} \ {u \in URLs : is_done(mgr[EngineMgr], u)}

(***************************************************************************)
(* C12: in list mode with checkpointing enabled and the store initialised, *)
(* a run() that was not cancelled has fetched exactly the seeds and the    *)
(* in_progress URLs of the store that are not done, and has emitted        *)
(* page_skipped with the number of URLs it filtered out as done.           *)
(***************************************************************************)
C12_RestartWorkSet ==
    ( /\ cfg.mode = "list" /\ cfg.use_checkpointing /\ ~cfg.respect_robots_txt
      /\ StoreReady
      /\ entry = "run" /\ ncalls = 1 /\ outcome \notin {"none", "CancelledError"} ) =>
        /\ fetched = RestartWorkSet
        /\ stats["page_skipped"] =
              Len(RestartUrls) - Len(ListUrls(get_incomplete(mgr[EngineMgr], db)))


(***************************************************************************)
(* C13: done is stable: no step of a CheckpointManager, mark_in_progress   *)
(* and mark_done of the same URL included, changes a row of the store      *)
(* whose status is done, so the URL never returns to incomplete.           *)
(***************************************************************************)
C13_DoneIsStable ==
    [][\A k \in Jobs \X URLs : db[k] = "done" => db'[k] = "done"]_vars


(***************************************************************************)
(* C14: the pagination driver starts at most max_pages page fetches and    *)
(* emits at most max_pages page_success events (no pagination spec counts  *)
(* as max_pages = 1); with max_pages = 1 it fetches exactly one page and,  *)
(* whatever link that page holds, has no current URL left when it returns. *)
(***************************************************************************)
C14_AtMostMaxPages ==
    LET limit == IF cfg.pagination = 0 THEN 1 ELSE cfg.pagination
    IN entry = "pagination" =>
          /\ fetch_calls <= limit
          /\ stats["page_success"] <= limit
          /\ pages_scraped <= limit
          /\ (limit = 1 /\ cfg.base_url # NoUrl /\ is_allowed(cfg.base_url)) =>
                /\ fetch_calls = 1
                /\ fetched = {cfg.base_url}
                /\ stats["page_success"] = 1 => (outcome = "returned" /\ t_url[Main] = NoUrl)

\* A chain of two pages was fetched in full, and the second page's link was
\* not followed.
C14_Witness ==
    /\ entry = "pagination" /\ outcome = "returned"
    /\ cfg.pagination = MaxPages
    /\ fetch_calls = MaxPages
    /\ stats["page_success"] = MaxPages


\* The URLs the robots policy in force disallows.
Denied == IF cfg.respect_robots_txt /\ robots_parser.loaded THEN robots_parser.deny ELSE {}

\* The workers that were started on a disallowed URL.
BlockedWorkers ==
    {t \in Workers : t_url[t] \in Denied /\ pc[t] # "created"}

\* A driver is running or has returned.
DriverNotCancelled ==
    entry \in {"list", "pagination"} /\ outcome \in {"none", "returned"}

C16_BrokenPageEndsChain ==
    (entry = "pagination" /\ t_result[Main] \in Failures) =>
        /\ outcome = "returned" /\ pc[Main] = "idle"
        /\ fetch_calls = pages_scraped + 1
        /\ failed_urls = <<t_url[Main]>>
        /\ stats["page_error"] = 1
        /\ stats["page_success"] = pages_scraped
        /\ StoreReady => \A u \in md_called : db[<<EngineJob, u>>] = "done"

(***************************************************************************)
(* The seen-set on durable storage.  BloomFilter (bloom.py:13-141) has no  *)
(* method that writes or reads its bit array, and neither run() nor        *)
(* _cleanup_resources (scraper.py:133-145, 368-372) saves self.seen_hashes:*)
(* what the next run can load is the empty bit array __init__ builds.      *)
(***************************************************************************)
PersistedSeen == {}

KeptHashes == {item_hash(arrivals[i].item) : i \in {j \in DOMAIN arrivals : arrivals[j].kept}}

(***************************************************************************)
(* C18: when run() has ended, by return or by an exception, the hash of    *)
(* every record the engine kept is contained in the persisted seen-set.    *)
(***************************************************************************)
C18_SeenSetSaved ==
    (entry = "run" /\ outcome # "none") =>
        \A h \in KeptHashes : BloomContains(PersistedSeen, h)

(***************************************************************************)
(* C19: when run() has ended after _setup_resources opened the session,    *)
(* whatever the way it ended, the session is closed.                       *)
(***************************************************************************)
C19_ClosedOnEveryExit ==
    (entry = "run" /\ outcome \in {"returned", "CancelledError", "TypeError"}) =>
        ~session_open

(***************************************************************************)
(* C20: once shutdown_requested is set no call of _fetch_page is started   *)
(* and no URL is marked in_progress: the pagination driver fetches no      *)
(* further page, and a worker that has not started its fetch, also one     *)
(* waiting for a permit or for a limiter token, never starts it.           *)
(***************************************************************************)
C20_NoFetchAfterShutdown ==
    [][shutdown_requested => /\ fetch_calls' = fetch_calls
                             /\ mip_called' = mip_called]_vars

(***************************************************************************)
(* C21: when the list driver has raised the exception of a worker, the     *)
(* shutdown flag is set, and from then on no worker starts a fetch.        *)
(***************************************************************************)
C21_WorkerErrorSetsShutdown ==
    [][(entry = "list" /\ outcome' = "Exception") =>
          /\ shutdown_requested'
          /\ fetch_calls' = fetch_calls]_vars

\* No seed is left to work on (there is none, or checkpointing is on and every
\* seed is done) and the store holds no incomplete URL.
EmptyWorkSet ==
    /\ \A i \in DOMAIN cfg.start_urls :
          cfg.use_checkpointing /\ is_done(mgr[EngineMgr], cfg.start_urls[i])
    /\ get_incomplete(mgr[EngineMgr], db) = {}

(***************************************************************************)
(* C23: list mode with an empty effective URL set.  When _run_list_mode    *)
(* was called the driver has returned: no worker and no semaphore was      *)
(* created, no request was issued, no mark operation was called and the    *)
(* sink was not invoked.                                                   *)
(***************************************************************************)
C23_EmptyWorkSetReturns ==
    (entry = "list" /\ EmptyWorkSet) =>
        /\ outcome = "returned"
        /\ \A t \in AllTasks : pc[t] = "idle" /\ t_url[t] = NoUrl
        /\ sem = NoSem
        /\ fetch_calls = 0 /\ requests_issued = 0 /\ fetched = {}
        /\ mip_called = {} /\ md_called = {}
        /\ sink_calls = <<>>

\* Every seed was already done: the driver was called and skipped them all.
C23_Witness ==
    /\ entry = "list" /\ EmptyWorkSet
    /\ Len(cfg.start_urls) = MaxSeeds
    /\ stats["page_skipped"] = MaxSeeds

\* The workers that have started _fetch_page for the URL u.
Fetchers(u) ==
    {t \in Workers : t_url[t] = u /\ (pc[t] = "fetch" \/ t_result[t] # "none")}

(***************************************************************************)
(* C26: list mode schedules every URL once, however often the seed list    *)
(* names it: no URL is fetched, and marked in_progress, by more than one   *)
(* worker.                                                                 *)
(***************************************************************************)
C26_SeedsDeduplicated ==
    entry = "list" => \A u \in URLs : Cardinality(Fetchers(u)) <= 1

\* robots.txt is not in force: respect_robots_txt is off, or it was not loaded
\* (the download raised, timed out, or came back with an HTTP error).
NoRobotsPolicy ==
    \/ ~cfg.respect_robots_txt
    \/ ~robots_parser.loaded
    \/ robots_parser.read = "http_error"

(***************************************************************************)
(* C27: when respect_robots_txt is false, or when robots.txt could not be  *)
(* loaded, _is_allowed is true for every URL and no blocked event is       *)
(* emitted.                                                                *)
(***************************************************************************)
C27_LoadFailureAllowsAll ==
    NoRobotsPolicy =>
        /\ \A u \in URLs : is_allowed(u)
        /\ entry \in {"list", "pagination"} => stats["blocked"] = 0


(***************************************************************************)
(* BrowserManager (src/engine/browser.py): tasks awaiting fetch_page of    *)
(* one manager.  A task is suspended at each await of fetch_page: the      *)
(* close of the old context, the creation of the new one, the navigation,  *)
(* each attempt of an interaction, the read of the content, the close of   *)
(* the page.                                                               *)
(***************************************************************************)
\* browser.new_context(...): a context nobody has used.
NewContext == [closed |-> FALSE, pages |-> 0, open |-> 0]

\* context.new_page() on context c, and page.close() of one of its pages.
new_page(cs, c) == [cs EXCEPT ![c].pages = @ + 1, ![c].open = @ + 1]
page_close(cs, c) == [cs EXCEPT ![c].open = @ - 1]

\* The pages of task t's call exist between new_page and page.close.
PageInUse(t) == b_task[t].pc \in {"goto", "interact", "content", "page_close"}

\* await manager.start() (browser.py:34-47): playwright, the browser, and the
\* first context through _create_context, which has nothing to close.
BrStart ==
    /\ ~bm.playwright
    /\ contexts' = Append(contexts, NewContext)
    /\ bm' = [bm EXCEPT !.playwright = TRUE, !.context = Len(contexts) + 1,
                        !.request_count = 0]
    /\ UNCHANGED <<b_task, b_calls, overlapped>>
    /\ UNCHANGED <<ckVars, dataVars, taskVars, engVars>>

\* fetch_page up to its first await (browser.py:70-81). Without a context it
\* raises RuntimeError. It counts the request; past the limit it enters
\* _create_context, which awaits the close of self.context; otherwise it opens
\* its page on self.context.
FetchPage(t) ==
    /\ b_task[t].pc = "idle"
    /\ b_calls < MaxBrCalls
    /\ b_calls' = b_calls + 1
    /\ overlapped' = (overlapped \/ \E u \in BrTasks : u # t /\ b_task[u].pc # "idle")
    /\ IF bm.context = NoContext
       THEN /\ b_task' = [b_task EXCEPT ![t] = [IdleCall EXCEPT !.result = "RuntimeError"]]
            /\ UNCHANGED <<bm, contexts>>
       ELSE /\ bm' = [bm EXCEPT !.request_count = @ + 1]
            /\ IF bm.request_count + 1 > MAX_REQUESTS_PER_CONTEXT
               THEN /\ b_task' = [b_task EXCEPT ![t] =
                          [IdleCall EXCEPT !.pc = "context_close", !.ctx = bm.context]]
                    /\ UNCHANGED contexts
               ELSE IF contexts[bm.context].closed
               THEN /\ b_task' = [b_task EXCEPT ![t] =
                          [IdleCall EXCEPT !.result = "TargetClosedError"]]
                    /\ UNCHANGED contexts
               ELSE /\ b_task' = [b_task EXCEPT ![t] =
                          [IdleCall EXCEPT !.pc = "goto", !.ctx = bm.context]]
                    /\ contexts' = new_page(contexts, bm.context)
    /\ UNCHANGED <<ckVars, dataVars, taskVars, engVars>>

\* _create_context: "await self.context.close()" returns (browser.py:50-51);
\* the task goes on to await browser.new_context, self.context unchanged.
ContextClosed(t) ==
    /\ b_task[t].pc = "context_close"
    /\ contexts' = [contexts EXCEPT ![b_task[t].ctx].closed = TRUE]
    /\ b_task' = [b_task EXCEPT ![t].pc = "new_context"]
    /\ UNCHANGED <<bm, b_calls, overlapped>>
    /\ UNCHANGED <<ckVars, dataVars, taskVars, engVars>>

\* _create_context: browser.new_context returns (browser.py:56-61); the new
\* context is stored, request_count is reset, and fetch_page opens its page on
\* self.context without suspending in between (browser.py:81).
ContextCreated(t) ==
    /\ b_task[t].pc = "new_context"
    /\ LET c == Len(contexts) + 1 IN
        /\ contexts' = new_page(Append(contexts, NewContext), c)
        /\ bm' = [bm EXCEPT !.context = c, !.request_count = 0]
        /\ b_task' = [b_task EXCEPT ![t].pc = "goto", ![t].ctx = c]
    /\ UNCHANGED <<b_calls, overlapped>>
    /\ UNCHANGED <<ckVars, dataVars, taskVars, engVars>>

\* page.goto returns or raises (browser.py:83-95); on a closed context every
\* page operation raises. After it, the interactions, if any are configured.
Goto(t, ok) ==
    /\ b_task[t].pc = "goto"
    /\ contexts[b_task[t].ctx].closed => ~ok
    /\ b_task' = [b_task EXCEPT ![t] =
          IF ~ok THEN [@ EXCEPT !.pc = "page_close", !.result = "goto_error"]
          ELSE IF bm.interactions > 0
          THEN [@ EXCEPT !.pc = "interact", !.step = 1, !.attempt = 1]
          ELSE [@ EXCEPT !.pc = "content"]]
    /\ UNCHANGED <<bm, contexts, b_calls, overlapped>>
    /\ UNCHANGED <<ckVars, dataVars, taskVars, engVars>>

\* One attempt of _execute_interaction on a step has ended (browser.py:114-121,
\* scraper.py:388-402): after a failure, @retry(stop_after_attempt(2)) makes
\* one more attempt; the exception of the last attempt is caught by the loop of
\* _handle_interactions, which goes on with the next step.
after_attempt_Raise(step, attempt, ok) ==
    IF ok THEN [step |-> step + 1, attempt |-> 1, raised |-> FALSE]
    ELSE IF attempt < InteractionAttempts
    THEN [step |-> step, attempt |-> attempt + 1, raised |-> FALSE]
    ELSE [step |-> step, attempt |-> attempt, raised |-> TRUE]

after_attempt(step, attempt, ok) ==
    IF ok \/ attempt >= InteractionAttempts
    THEN [step |-> step + 1, attempt |-> 1, raised |-> FALSE]
    ELSE [step |-> step, attempt |-> attempt + 1, raised |-> FALSE]

ExecuteInteraction(t, ok) ==
    /\ b_task[t].pc = "interact"
    /\ contexts[b_task[t].ctx].closed => ~ok
    /\ LET n == after_attempt(b_task[t].step, b_task[t].attempt, ok) IN
        b_task' = [b_task EXCEPT ![t] =
            [@ EXCEPT !.log = Append(@, b_task[t].step),
                      !.step = n.step, !.attempt = n.attempt,
                      !.pc = IF n.raised THEN "page_close"
                             ELSE IF n.step > bm.interactions THEN "content"
                             ELSE "interact",
                      !.result = IF n.raised THEN "interaction_error" ELSE @]]
    /\ UNCHANGED <<bm, contexts, b_calls, overlapped>>
    /\ UNCHANGED <<ckVars, dataVars, taskVars, engVars>>

\* wait_for_selector, whose failure is swallowed, then page.content() returns
\* the HTML or raises (browser.py:97-107).
Content(t, ok) ==
    /\ b_task[t].pc = "content"
    /\ contexts[b_task[t].ctx].closed => ~ok
    /\ b_task' = [b_task EXCEPT ![t].pc = "page_close",
                                ![t].result = IF ok THEN "html" ELSE "content_error"]
    /\ UNCHANGED <<bm, contexts, b_calls, overlapped>>
    /\ UNCHANGED <<ckVars, dataVars, taskVars, engVars>>

\* finally: await page.close() (browser.py:108-109); the call ends.
PageClose(t) ==
    /\ b_task[t].pc = "page_close"
    /\ contexts' = page_close(contexts, b_task[t].ctx)
    /\ b_task' = [b_task EXCEPT ![t].pc = "idle"]
    /\ UNCHANGED <<bm, b_calls, overlapped>>
    /\ UNCHANGED <<ckVars, dataVars, taskVars, engVars>>

BrowserNext ==
    \/ BrStart
    \/ \E t \in BrTasks : FetchPage(t)
    \/ \E t \in BrTasks : ContextClosed(t)
    \/ \E t \in BrTasks : ContextCreated(t)
    \/ \E t \in BrTasks, ok \in BOOLEAN : Goto(t, ok)
    \/ \E t \in BrTasks, ok \in BOOLEAN : ExecuteInteraction(t, ok)
    \/ \E t \in BrTasks, ok \in BOOLEAN : Content(t, ok)
    \/ \E t \in BrTasks : PageClose(t)

BrowserInit ==
    /\ \E n \in 0..MaxInteractions : BrowserNew(n)
    /\ CkInit /\ DataInit /\ fields = <<"items">> /\ TaskInit /\ EngInit(DefaultConfig)

SpecBrowser == BrowserInit /\ [][BrowserNext]_vars

(***************************************************************************)
(* C31: over a sequence of fetch_page calls made one after the other, no   *)
(* browser context has more than MAX_REQUESTS_PER_CONTEXT pages opened in  *)
(* it, and a context is used only after every earlier context was closed.  *)
(***************************************************************************)
PagesWithinLimit ==
    \A c \in 1..Len(contexts) : contexts[c].pages <= MAX_REQUESTS_PER_CONTEXT

OldClosedBeforeNewUsed ==
    \A c \in 1..Len(contexts) :
        contexts[c].pages > 0 => \A d \in 1..(c - 1) : contexts[d].closed

C31_RotatedEveryLimitPages ==
    ~overlapped => PagesWithinLimit /\ OldClosedBeforeNewUsed


(***************************************************************************)
(* C40: with concurrent fetch_page calls, no context is closed while the   *)
(* page another call opened in it is still in use (between new_page and    *)
(* page.close), and no call opens a page on a context already closed.      *)
(***************************************************************************)
NoPageOpenedOnClosedContext ==
    \A t \in BrTasks : b_task[t].result # "TargetClosedError"

C40_NoContextClosedUnderPage ==
    /\ \A t \in BrTasks : PageInUse(t) => ~contexts[b_task[t].ctx].closed
    /\ NoPageOpenedOnClosedContext


(***************************************************************************)
(* C32: a failing interaction never aborts the fetch.  Whatever attempts   *)
(* fail, the steps of the script are attempted in declaration order, each  *)
(* at least once and at most InteractionAttempts (2) times, before the     *)
(* call goes on to read the page content; no call ends with the exception  *)
(* of an interaction.                                                      *)
(***************************************************************************)
Attempts(log, k) == Cardinality({i \in 1..Len(log) : log[i] = k})

InOrder(log) == \A i, j \in 1..Len(log) : i < j => log[i] <= log[j]

\* The steps the log must hold when the call is at the given step and attempt.
AttemptedUpTo(log, step, attempt) ==
    /\ \A k \in 1..(step - 1) : Attempts(log, k) \in 1..InteractionAttempts
    /\ Attempts(log, step) = attempt - 1
    /\ \A i \in 1..Len(log) : log[i] <= step

C32_FailedInteractionNeverAborts ==
    \A t \in BrTasks :
        /\ InOrder(b_task[t].log)
        /\ b_task[t].result # "interaction_error"
        /\ b_task[t].pc = "interact" =>
              /\ b_task[t].attempt \in 1..InteractionAttempts
              /\ AttemptedUpTo(b_task[t].log, b_task[t].step, b_task[t].attempt)
        /\ b_task[t].log # <<>> /\ b_task[t].pc # "interact" =>
              /\ AttemptedUpTo(b_task[t].log, bm.interactions + 1, 1)
              /\ b_task[t].pc = "content" \/ b_task[t].result \in {"html", "content_error"}

\* Step 1 failed at both attempts and step 2 at its first; step 2 was still
\* attempted, twice, and the content was read and returned.
C32_Witness ==
    \E t \in BrTasks :
        /\ bm.interactions = 2
        /\ b_task[t].log = <<1, 1, 2, 2>>
        /\ b_task[t].result = "html"


(***************************************************************************)
(* C33: a response that is neither a 200 with a body nor retryable makes   *)
(* _fetch_page return the empty string without another request, and the    *)
(* driver treats the URL as failed: one page_error, the URL appended to    *)
(* failed_urls, nothing marked done, nothing merged.                       *)
(***************************************************************************)
\* The step in which the fetch of task t ends with the empty string.
EmptyReturned(t) ==
    /\ pc[t] = "fetch" /\ t_attempt[t] # 0
    /\ t_attempt'[t] = 0 /\ t_result'[t] = "empty"

Scheduled == {t \in Workers : t_url[t] # NoUrl}

ListReturned == entry = "list" /\ outcome = "returned" /\ ~shutdown_requested

\* Each scheduled URL was either blocked (no fetch result) or fetched, with
\* a success or a failure, and the events count them.
OneOutcomePerUrl ==
    /\ \A t \in Scheduled : (t_url[t] \in Denied) <=> (t_result[t] = "none")
    /\ \A t \in Scheduled : t_result[t] \in {"none", "html"} \cup Failures
    /\ stats["blocked"] = Cardinality({t \in Scheduled : t_result[t] = "none"})
    /\ stats["page_success"] = Cardinality({t \in Scheduled : t_result[t] = "html"})
    /\ stats["page_error"] = Cardinality({t \in Scheduled : t_result[t] \in Failures})

FailedIffPageError ==
    \A u \in URLs : CountSeq(failed_urls, u) = Cardinality(FailedFetches(u))

DoneIffPageSuccess ==
    StoreReady =>
        \A t \in Scheduled :
            (db[<<EngineJob, t_url[t]>>] = "done") <=>
                (\E t2 \in Scheduled : t_url[t2] = t_url[t] /\ t_result[t2] = "html")

C34_EveryUrlOneOutcome ==
    ListReturned => OneOutcomePerUrl /\ FailedIffPageError /\ DoneIffPageSuccess

\* The steps of the list driver and its workers that the event loop takes
\* whenever they can be taken: a task that is ready runs, a request comes back,
\* a sleep ends, the limiter's bucket drains.
ListProgress ==
    \/ \E t \in Workers : WorkerStart(t)
    \/ \E t \in Workers : AcquireSem(t)
    \/ \E t \in Workers : AcquireLimiter(t)
    \/ LimiterLeak
    \/ \E t \in Workers, out \in Outcomes : WorkerFetched(t, out)
    \/ \E t \in AllTasks : MergeData(t)
    \/ \E t \in AllTasks : SinkReturn(t)
    \/ \E t \in Workers : WorkerMerged(t)
    \/ \E t \in Workers : WorkerExit(t)
    \/ ListReturn
    \/ ListRaised

SpecLive == Init /\ [][Next]_vars /\ WF_vars(ListProgress)

\* Under SpecLive the list driver ends (unless shutdown is requested): it
\* returns with every worker finished, or raises.
ListDriverEnds == (entry = "list") ~> (outcome # "none" \/ shutdown_requested)


(***************************************************************************)
(* C35: whenever no task is inside the data_lock critical section, the     *)
(* pending batch holds fewer than batch_size entries, whether they came    *)
(* from list items or from non-list field values.                          *)
(***************************************************************************)
C35_PendingBelowBatchSize ==
    data_lock = Free => Len(pending_batch) < BatchSize


(***************************************************************************)
(* C36: checkpoint state is scoped by job name.  The calls of a manager    *)
(* for job A leave the rows of every other job as they are, what they      *)
(* return and write does not depend on those rows, and is_done(u) is true  *)
(* only for URLs marked done under job A -- also when another job records  *)
(* the same URL.                                                           *)
(***************************************************************************)
Statuses == {"none", "in_progress", "done"}

\* The database d with the rows of every job but job set to status s.
OtherJobsSetTo(d, job, s) ==
    [k \in DOMAIN d |-> IF k[1] = job THEN d[k] ELSE s]

SameForJob(d1, d2, job) == \A u \in URLs : d1[<<job, u>>] = d2[<<job, u>>]
SameForOthers(d1, d2, job) ==
    \A k \in DOMAIN d1 : k[1] # job => d1[k] = d2[k]

C36_ScopedByJobName ==
    \A i \in Mgrs : mgr[i].created =>
        LET m == mgr[i] IN
        /\ \A u \in URLs, ok \in BOOLEAN :
              /\ SameForOthers(mark_in_progress(m, db, u, ok), db, m.job)
              /\ SameForOthers(mark_done(m, db, u, ok)[2], db, m.job)
        /\ \A s \in Statuses :
              LET d2 == OtherJobsSetTo(db, m.job, s) IN
              /\ get_incomplete(m, d2) = get_incomplete(m, db)
              /\ initialize(m, d2, TRUE) = initialize(m, db, TRUE)
              /\ \A u \in URLs, ok \in BOOLEAN :
                    /\ SameForJob(mark_in_progress(m, d2, u, ok),
                                  mark_in_progress(m, db, u, ok), m.job)
                    /\ SameForJob(mark_done(m, d2, u, ok)[2],
                                  mark_done(m, db, u, ok)[2], m.job)
                    /\ mark_done(m, d2, u, ok)[1] = mark_done(m, db, u, ok)[1]
        /\ \A u \in URLs : is_done(m, u) => <<m.job, u>> \in done_returned

\* Two initialised managers of different jobs recorded the same URL: it is
\* done for one job and in progress for the other.
C36_Witness ==
    \E i, j \in Mgrs, u \in URLs :
        /\ mgr[i].created /\ mgr[j].created /\ mgr[i].job # mgr[j].job
        /\ mgr[i].initialized /\ mgr[j].initialized
        /\ db[<<mgr[i].job, u>>] = "done" /\ is_done(mgr[i], u)
        /\ db[<<mgr[j].job, u>>] = "in_progress" /\ ~is_done(mgr[j], u)
        /\ u \notin get_incomplete(mgr[i], db) /\ u \in get_incomplete(mgr[j], db)


(***************************************************************************)
(* C37: for an enabled, initialised checkpoint store, is_done(u) is true   *)
(* exactly if the persisted row for (job, u) exists with status done, in   *)
(* every state reached by mark_in_progress and mark_done calls.            *)
(***************************************************************************)
C37_CacheAgreesWithDatabase ==
    \A i \in Mgrs : (mgr[i].created /\ mgr[i].enabled /\ mgr[i].initialized) =>
        \A u \in URLs : is_done(mgr[i], u) <=> (db[<<mgr[i].job, u>>] = "done")


(***************************************************************************)
(* C38: aggregated_data agrees with the streamed output.  For every field  *)
(* key, the values appended to the pending batch under that key are, as a  *)
(* multiset, the values aggregated_data holds under it.                    *)
(***************************************************************************)
FieldValues == Items \cup {None, Title}

\* How often value v was appended to the pending batch under key k.
TimesAppended(k, v) ==
    Cardinality({i \in 1..Len(appended) : appended[i].key = k /\ appended[i].v = v})

\* How often aggregated_data[k] holds v: a list holds its elements, a scalar
\* key holds its one value.
TimesHeld(k, v) ==
    IF ~aggregated_data[k].present THEN 0
    ELSE IF IsListField(k) THEN CountSeq(aggregated_data[k].items, v)
    ELSE IF aggregated_data[k].v = v THEN 1 ELSE 0

AgreesOn(k) == \A v \in FieldValues : TimesAppended(k, v) = TimesHeld(k, v)

C38_AggregatedAgreesWithStream == \A k \in Keys : AgreesOn(k)


(***************************************************************************)
(* C39: _flush_remaining_batches, the handler run() awaits when it is      *)
(* cancelled, completes without raising and without invoking the sink when *)
(* the pending batch is empty, so that the CancelledError is what run()    *)
(* re-raises.                                                              *)
(***************************************************************************)
C39_FlushOfEmptyBatchReturns ==
    \A t \in Tasks : pc[t] # "UnboundLocalError"

=============================================================================
